---- MODULE Spec2Model ----
(***************************************************************************)
(* Model of the retrying HTTP fetch layer of package requests              *)
(* (ext/httpext/requests): RetryRequest.GetResponse with its limiter wait, *)
(* attempt loop, backoff, network-outage recovery loop, and the content    *)
(* fetcher fetchContentsAsBytes / attemptFetchContents built on it.        *)
(*                                                                         *)
(* One behaviour is one external fetch call on one RetryRequest: the       *)
(* configuration, the entry point and the URL's validity are drawn in      *)
(* Init; the server's answers, the decode result, timers and the caller's  *)
(* cancellation are drawn step by step.                                    *)
(*                                                                         *)
(* Durations are in seconds.  An error is the chain of its layers,         *)
(* outermost first (fmt.Errorf("...%w", e) puts a layer before e);         *)
(* nil is the empty chain.                                                 *)
(***************************************************************************)
EXTENDS Integers, Sequences, FiniteSets, TLC

(* ---------------- bounds of the model ---------------- *)
MaxRetriesBound == 3
MaxRequestTime == 1

(* ---------------- program constants ---------------- *)
StatusOK == 200
StatusMultipleChoices == 300
StatusNotFound == 404
StatusUnprocessableEntity == 422
StatusTooManyRequests == 429
BurstSize == 1
ProbeCount == 4

\* the statuses a server answers with here: 200, 404, 422, 429 and 500
Statuses ==
    {StatusOK, StatusNotFound, StatusUnprocessableEntity,
     StatusTooManyRequests, 500}

(* ---------------- errors ---------------- *)
Nil == << >>
Canceled == "context canceled"
DeadlineExceeded == "context deadline exceeded"
DialTimeout == "dial tcp: i/o timeout"
StreamError == "stream error"
ConnRefused == "connection refused"
ErrNotFoundNoRetry == "404 Not Found, not retrying due to NoRetry404 option"
ErrNetworkUnavailableAfterMaxWait == "network unavailable after max wait"
MaxRetriesReached == "max retries reached: last error"
FailedToGetResponse == "failed to get a response for the URL"
RequestError == "net/http: invalid request URL"
GzipHeaderError == "gzip: invalid header"
CharsetError == "charset: unsupported encoding"

StatusCodeErrorOf(code) ==
    IF code = StatusNotFound THEN "404 Not Found"
    ELSE IF code = StatusUnprocessableEntity THEN "422 Unprocessable Entity"
    ELSE "status"

\* &StatusCodeError{StatusCode, URL, Message}: one layer, no cause.
StatusCodeError(code) == << StatusCodeErrorOf(code) >>

\* fmt.Errorf("<layer>: %w", e): a nil e leaves a wrapper whose Unwrap is nil.
Wrap(layer, e) == << layer >> \o e

\* errors.Unwrap
Unwrap(e) == IF e = Nil THEN Nil ELSE Tail(e)

\* errors.Is(e, target) for a sentinel target
Is(e, target) == \E k \in 1..Len(e) : e[k] = target

\* strings.Contains(e.Error(), text): every layer's text is part of the message
Contains(e, text) == \E k \in 1..Len(e) : e[k] = text

Is404NoRetryError(e) == Is(e, ErrNotFoundNoRetry)

\* *url.Error returned by client.Do around the transport's error
UrlError(cause) == << "Get", cause >>

(* ---------------- configuration (RetryRequest fields) ---------------- *)
BackoffFactors == {5}
LongBackoffs == {0, 15}
NetworkPolicies ==
    { [resolveNetworkUnavailable |-> FALSE,
       networkUnavailableBackOff |-> 0, networkUnavailableMaxWait |-> 0],
      [resolveNetworkUnavailable |-> TRUE,
       networkUnavailableBackOff |-> 2, networkUnavailableMaxWait |-> 3] }

\* NewRetryRequest with any options applied
Configs ==
    { [maxRetries |-> m, backoffFactor |-> b, isRateLimited |-> rl,
       noRetry404 |-> n4, noRetry422 |-> n2, longBackOffOn429 |-> lb,
       resolveNetworkUnavailable |-> np.resolveNetworkUnavailable,
       networkUnavailableBackOff |-> np.networkUnavailableBackOff,
       networkUnavailableMaxWait |-> np.networkUnavailableMaxWait] :
      m \in 0..MaxRetriesBound, b \in BackoffFactors, rl \in BOOLEAN,
      n4 \in BOOLEAN, n2 \in BOOLEAN, lb \in LongBackoffs,
      np \in NetworkPolicies }

Entries == {"GetResponse", "fetchContentsAsBytes"}

VARIABLES
    r,            \* the RetryRequest configuration
    entry,        \* the exported function the caller invoked
    urlValid,     \* whether http.NewRequestWithContext accepts the URL
    ctx,          \* caller's context: "live" or its Err()
    canceledAt,   \* pc at which the caller's context ended ("" while live;
                  \* "timerExpired" when the wait it was in was already over)
    sentAtCancel, \* value of sent when the caller's context ended
    pc,           \* position of the call
    i,            \* GetResponse: loop index
    attempt,      \* fetchContentsAsBytes: loop index
    resp,         \* GetResponse: status of resp (0 when resp is nil)
    cancel,       \* GetResponse: whether the cancel variable is non-nil
    err,          \* GetResponse: err
    ret,          \* what GetResponse returned: [resp, cancel, err]
    ferr,         \* fetchContentsAsBytes: err
    out,          \* what the content fetcher returned: [bytes, err]
    tokens,       \* limiter bucket (negative: a reservation is waiting)
    timer,        \* duration of the timer of the current backoff wait
    timerFired,   \* the timer of the current wait has expired
    elapsed,      \* recovery loop: time.Since(start)
    waits,        \* number of backoff waits started in this GetResponse call
    fetchWaits,   \* number of backoff waits started by fetchContentsAsBytes
    slept,        \* recovery loop: total time slept
    attempts,     \* requests made by the attempt loop of this GetResponse call
    recAttempts,  \* requests made by the recovery loop of this GetResponse call
    totalAttempts,\* requests made by attempt loops in the whole fetch call
    sent,         \* requests that reached the transport with a live context
    admitted,     \* successful limiter.Wait calls
    open          \* response bodies received and not closed

engineVars ==
    << r, entry, urlValid, ctx, canceledAt, sentAtCancel, pc, i, attempt, resp, cancel, err,
       ret, ferr, out, tokens, timer, timerFired, elapsed, waits, fetchWaits, slept,
       attempts, recAttempts, totalAttempts, sent, admitted, open >>

\* One shared limiter and the GetResponse calls queued on it.  Time is
\* counted in token intervals (1 / limit seconds: the time one token takes
\* to accrue).
VARIABLES
    clock,        \* the current time
    limTokens,    \* limiter: tokens at time limLast (negative: reserved ahead)
    limLast,      \* limiter: time of the last update of limTokens
    toCall,       \* GetResponse calls not yet made
    reserved,     \* times to act of the calls blocked in limiter.Wait, in order
    admitLog      \* admitLog[t + 1]: calls whose Wait returned nil at time t

limiterVars == << clock, limTokens, limLast, toCall, reserved, admitLog >>

\* One call of IsNetworkUnavailable with its probe goroutines.
VARIABLES
    probeErr,     \* the err argument
    probePc,      \* position of the caller: "call", "receive", "returned"
    probeOutcome, \* per probe goroutine: "idle", "running", "ok", "failed"
    responses,    \* the buffered channel responses
    received,     \* values received so far by the loop over urls
    checkResult,  \* isNetworkAvailableCheck: "none", then "true" or "false"
    unavailable   \* what IsNetworkUnavailable returned

probeVars ==
    << probeErr, probePc, probeOutcome, responses, received, checkResult,
       unavailable >>

\* One call of RedirectedRequest.GetContentsAsBytesWithContextAndFinalURL
\* on top of the engine, with the transport's redirect following.
VARIABLES
    loggedRedirects,      \* WithLoggedRedirects was among the options
    site,                 \* the body each page is served with
    urlStr,               \* argument urlStr of the current chaser call
    checkForJavaRedirect, \* argument checkForJavaRedirect of that call
    fetches,              \* GetResponse calls made by the chaser
    via,                  \* len(via): requests made so far by this client.Do
    reqURL,               \* URL of the request being answered
    finalURL,             \* rr.finalURL
    usedLast,             \* this client.Do ended on http.ErrUseLastResponse
    deferred,             \* Body.Close calls deferred by the outer chaser call
    chRet                 \* what the chaser returned

chaserVars ==
    << loggedRedirects, site, urlStr, checkForJavaRedirect, fetches, via,
       reqURL, finalURL, usedLast, deferred, chRet >>

\* One run of JSONLStreamFetcher.FetchJSONLStream: its goroutine, the server
\* it polls and the consumer of the channel.
VARIABLES
    stream,           \* the bytes the server's stream will consist of
    avail,            \* how many of them the server has so far
    stCtx,            \* ctx: "live" or "canceled"
    stPc,             \* position of the goroutine
    lastBytePosition, \* lastBytePosition
    stBody,           \* bytes of resp.Body the scanner has not consumed
    contentLength,    \* resp.ContentLength
    stLine,           \* the item being sent on resultChan
    delivered,        \* items the consumer has received, in order
    consumerActive,   \* the consumer is still receiving
    StartMessage,     \* f.StartMessage (NoLine: nil)
    EndMessage,       \* f.EndMessage (NoLine: nil)
    stRequests,       \* requests issued
    ranges,           \* Range offsets of the requests (-1: no Range header)
    stResponses,      \* responses received: status and the bytes carried
    stOpen,           \* response bodies open
    closes,           \* times resultChan was closed
    scanned,          \* items read from the bodies, in the order read
    stExit            \* why the goroutine returned ("": it is running)

streamVars ==
    << stream, avail, stCtx, stPc, lastBytePosition, stBody, contentLength,
       stLine, delivered, consumerActive, StartMessage, EndMessage,
       stRequests, ranges, stResponses, stOpen, closes, scanned, stExit >>

\* One content fetch from the point where a successful response has been
\* obtained: the response's headers and body, the readers and the result.
VARIABLES
    dFetcher,    \* which function reads the response
    dEncoding,   \* the Content-Encoding header
    dType,       \* the Content-Type header
    dWire,       \* the body as the server sent it
    dFaultAt,    \* the read of the body that fails (0: none)
    dFaultKind,  \* the error of that read
    dPc,         \* position in the fetcher
    dReads,      \* reads of the body made so far
    dApplied,    \* the decoding steps applied
    bodyOpen,    \* resp.Body is not closed
    gzipOpen,    \* a gzip reader was created and is not closed
    dOut,        \* what the fetcher returned
    dRetry       \* fetchContentsAsBytes goes on to another attempt

decoderVars ==
    << dFetcher, dEncoding, dType, dWire, dFaultAt, dFaultKind, dPc, dReads,
       dApplied, bodyOpen, gzipOpen, dOut, dRetry >>

\* Two concurrent calls of GetContentsAsBytesWithContextAndFinalURL on one
\* RedirectedRequest.
VARIABLES
    rcPc,            \* per call: its position
    rcHops,          \* per call: the redirects the server still answers with
    rcTarget,        \* per call: the URL of the request in flight
    rcRet,           \* per call: the URL returned
    rcFollow,        \* per call: the page fetched first names a follow-on URL
    rcLimited,       \* the engine has a rate limiter
    sharedFinalURL,  \* the field rr.finalURL
    rcWrites,        \* the memory writes made: location and writing call
    rcBucket         \* tokens of the shared limiter

raceVars ==
    << rcPc, rcHops, rcTarget, rcRet, rcFollow, rcLimited, sharedFinalURL,
       rcWrites, rcBucket >>

\* Callers of the singleton constructors NewSECRequest and
\* NewSECRequestInstallerRequest, with the steps of sync.Once.Do.
VARIABLES
    onceDone,    \* per constructor: the done flag of its sync.Once
    onceM,       \* per constructor: the caller holding the mutex of its Once (0: free)
    instance,    \* per constructor: the package variable (0: nil, else the
                 \* number of the engine, and of its limiter, it points to)
    built,       \* per constructor: NewRetryRequest calls completed
    snPc,        \* per caller: its position
    snCtor,      \* per caller: the constructor it calls
    snNew,       \* per caller: the engine it has built and not yet assigned
    snRet,       \* per caller: the value returned to it (0: nil)
    snReturned   \* per constructor: all values returned so far

onceVars ==
    << onceDone, onceM, instance, built, snPc, snCtor, snNew, snRet,
       snReturned >>

\* The virtual filesystem table and the last operation made on it.
VARIABLES
    fsStore,     \* rows of virtual_filesystem: path and len(content)
    fsLast       \* the last operation: its arguments and its result

fsVars == << fsStore, fsLast >>

moreVars == << onceVars, fsVars >>

auxVars ==
    << limiterVars, probeVars, chaserVars, streamVars, decoderVars, raceVars,
       moreVars >>

vars == << engineVars, auxVars >>

NoRet == [resp |-> 0, cancel |-> FALSE, err |-> Nil]
NoOut == [bytes |-> FALSE, err |-> Nil]

\* the variables of a call that has not started
EngineAtEntry ==
    /\ ctx = "live"
    /\ canceledAt = ""
    /\ sentAtCancel = 0
    /\ pc = "entry"
    /\ i = 0
    /\ attempt = 0
    /\ resp = 0
    /\ cancel = FALSE
    /\ err = Nil
    /\ ret = NoRet
    /\ ferr = Nil
    /\ out = NoOut
    /\ timer = 0
    /\ timerFired = FALSE
    /\ elapsed = 0
    /\ waits = 0
    /\ fetchWaits = 0
    /\ slept = 0
    /\ attempts = 0
    /\ recAttempts = 0
    /\ totalAttempts = 0
    /\ sent = 0
    /\ admitted = 0
    /\ open = 0

EngineInit ==
    /\ r \in Configs
    /\ entry \in Entries
    /\ urlValid \in BOOLEAN
    /\ tokens \in (IF r.isRateLimited THEN 0..BurstSize ELSE {0})
    /\ EngineAtEntry

\* the limiter model at rest
LimiterIdle ==
    /\ clock = 0
    /\ limTokens = 0
    /\ limLast = 0
    /\ toCall = 0
    /\ reserved = << >>
    /\ admitLog = << >>

\* no outage check in progress
ProbeIdle ==
    /\ probeErr = Nil
    /\ probePc = "idle"
    /\ probeOutcome = [k \in 1..ProbeCount |-> "idle"]
    /\ responses = << >>
    /\ received = 0
    /\ checkResult = "none"
    /\ unavailable = FALSE

Pages == {"a", "b"}
NoPage == ""
NoURL == [page |-> NoPage, hop |-> 0]
\* a body: the target of its meta-refresh tag and of its location.replace
\* call (NoPage: the body has none)
NoBody == [meta |-> NoPage, js |-> NoPage]
NoChRet == [bytes |-> NoBody, url |-> NoURL, err |-> Nil]

\* no redirect chaser at work
ChaserIdle ==
    /\ loggedRedirects = FALSE
    /\ site = [p \in Pages |-> NoBody]
    /\ urlStr = NoPage
    /\ checkForJavaRedirect = FALSE
    /\ fetches = 0
    /\ via = 0
    /\ reqURL = NoURL
    /\ finalURL = NoURL
    /\ usedLast = FALSE
    /\ deferred = 0
    /\ chRet = NoChRet

NoLine == << >>

\* no stream fetch running
StreamIdle ==
    /\ stream = << >>
    /\ avail = 0
    /\ stCtx = "live"
    /\ stPc = "idle"
    /\ lastBytePosition = 0
    /\ stBody = << >>
    /\ contentLength = 0
    /\ stLine = NoLine
    /\ delivered = << >>
    /\ consumerActive = FALSE
    /\ StartMessage = NoLine
    /\ EndMessage = NoLine
    /\ stRequests = 0
    /\ ranges = << >>
    /\ stResponses = << >>
    /\ stOpen = 0
    /\ closes = 0
    /\ scanned = << >>
    /\ stExit = ""

NoContent == [gz |-> FALSE, cs |-> "", empty |-> TRUE]
NoResult == [bytes |-> NoContent, reader |-> FALSE, err |-> Nil, at |-> ""]

\* no content fetch in progress
DecoderIdle ==
    /\ dFetcher = ""
    /\ dEncoding = << >>
    /\ dType = << >>
    /\ dWire = NoContent
    /\ dFaultAt = 0
    /\ dFaultKind = Nil
    /\ dPc = "idle"
    /\ dReads = 0
    /\ dApplied = {}
    /\ bodyOpen = FALSE
    /\ gzipOpen = FALSE
    /\ dOut = NoResult
    /\ dRetry = FALSE

Calls == {1, 2}

\* no concurrent chaser calls
RaceIdle ==
    /\ rcPc = [k \in Calls |-> "idle"]
    /\ rcHops = [k \in Calls |-> 0]
    /\ rcTarget = [k \in Calls |-> 0]
    /\ rcRet = [k \in Calls |-> 0]
    /\ rcFollow = [k \in Calls |-> FALSE]
    /\ rcLimited = FALSE
    /\ sharedFinalURL = 0
    /\ rcWrites = {}
    /\ rcBucket = 0

Constructors == {"NewSECRequest", "NewSECRequestInstallerRequest"}
MaxCallers == 3
Callers == 1..MaxCallers

\* no constructor has been called
OnceIdle ==
    /\ onceDone = [c \in Constructors |-> 0]
    /\ onceM = [c \in Constructors |-> 0]
    /\ instance = [c \in Constructors |-> 0]
    /\ built = [c \in Constructors |-> 0]
    /\ snPc = [k \in Callers |-> "idle"]
    /\ snCtor = [k \in Callers |-> "NewSECRequest"]
    /\ snNew = [k \in Callers |-> 0]
    /\ snRet = [k \in Callers |-> 0]
    /\ snReturned = [c \in Constructors |-> {}]

NoOperation ==
    [op |-> "", pathLen |-> 0, size |-> 0, err |-> FALSE, changed |-> FALSE]

\* an empty table
FsIdle ==
    /\ fsStore = {}
    /\ fsLast = NoOperation

OthersIdle == DecoderIdle /\ RaceIdle /\ OnceIdle /\ FsIdle

Init ==
    /\ EngineInit /\ LimiterIdle /\ ProbeIdle /\ ChaserIdle /\ StreamIdle
    /\ OthersIdle

(* ---------------- pure helpers of GetResponse ---------------- *)
RECURSIVE Pow2(_)
Pow2(n) == IF n = 0 THEN 1 ELSE 2 * Pow2(n - 1)

Min(a, b) == IF a <= b THEN a ELSE b

\* resp.StatusCode >= 200 && resp.StatusCode < 300
IsSuccess(status) == status >= StatusOK /\ status < StatusMultipleChoices

\* mutant: the 404 exit tests the 422 flag
IsNoRetry404WrongFlag(status) == status = StatusNotFound /\ r.noRetry422

\* resp.StatusCode == http.StatusNotFound && r.noRetry404
IsNoRetry404(status) == status = StatusNotFound /\ r.noRetry404

\* resp.StatusCode == http.StatusUnprocessableEntity && r.noRetry422
IsNoRetry422(status) == status = StatusUnprocessableEntity /\ r.noRetry422

\* mutant: only context.Canceled is recognised
isCanceledOnly(e) == Is(e, Canceled)

\* errors.Is(err, context.Canceled) || errors.Is(err, context.DeadlineExceeded)
isCanceledOrDeadline(e) == Is(e, Canceled) \/ Is(e, DeadlineExceeded)

\* mutant: the index of the attempt is not compared
isAnyAttemptWithPolicy(idx) == r.resolveNetworkUnavailable

\* mutant: the last attempt is followed by no backoff wait, policy or not
isLastAttempt(idx) == idx = r.maxRetries - 1

\* r.resolveNetworkUnavailable && i == r.maxRetries-1
isLastAttemptWithPolicy(idx) ==
    r.resolveNetworkUnavailable /\ idx = r.maxRetries - 1

\* mutant: a deadline-exceeded error counts as a network issue too
IsAnyTimeoutErr(e) ==
    IF e = Nil THEN FALSE
    ELSE Contains(e, DialTimeout) \/ Contains(e, DeadlineExceeded)

IsPossibleNetworkOrDNSIssueErr(e) ==
    IF e = Nil THEN FALSE ELSE Contains(e, DialTimeout)

\* probes[k]: the k-th probe request got a response
isNetworkAvailableCheck(probes) == \E k \in 1..ProbeCount : probes[k]

IsNetworkUnavailable(e, probes) ==
    IF ~IsPossibleNetworkOrDNSIssueErr(e) THEN FALSE
    ELSE isNetworkAvailableCheck(probes)

\* mutant: the long backoff is taken whatever the status
backoffDurationAnyStatus(idx, status) ==
    LET backoffDuration0 == r.backoffFactor * Pow2(idx)
    IN  IF r.longBackOffOn429 > backoffDuration0
        THEN r.longBackOffOn429
        ELSE backoffDuration0

\* backoff: the duration of the timer
backoffDuration(idx, status) ==
    LET backoffDuration0 == r.backoffFactor * Pow2(idx)
    IN  IF status # 0 /\ status = StatusTooManyRequests
           /\ r.longBackOffOn429 > backoffDuration0
        THEN r.longBackOffOn429
        ELSE backoffDuration0

\* fmt.Errorf("max retries reached: last error: %w", err)
maxRetriesError(e) == Wrap(MaxRetriesReached, e)

\* fmt.Errorf("%w: %s", ErrNotFoundNoRetry, url)
notFoundNoRetryError == Wrap("%w: url", << ErrNotFoundNoRetry >>)

\* what client.Do can answer: a response with a status, or a transport error
TransportErrors == {DeadlineExceeded, DialTimeout, StreamError, ConnRefused}

Outcomes ==
    IF ctx # "live"
    THEN { [status |-> 0, err |-> UrlError(ctx)] }
    ELSE { [status |-> st, err |-> Nil] : st \in Statuses }
         \cup { [status |-> 0, err |-> UrlError(t)] : t \in TransportErrors }

(* ---------------- the call ---------------- *)
Terminal ==
    \/ pc \in {"done", "panic"}
    \/ pc = "returned" /\ entry = "GetResponse"

\* return resp, cancel, err from GetResponse
Return(rs, cn, e) ==
    /\ pc' = "returned"
    /\ ret' = [resp |-> rs, cancel |-> cn, err |-> e]

\* mutant: the loop condition is i <= r.maxRetries
LoopNextOffByOne(idx, e) ==
    /\ i' = idx
    /\ IF idx <= r.maxRetries
       THEN pc' = "loop" /\ ret' = ret
       ELSE Return(0, FALSE, maxRetriesError(e))

\* the for statement's i++ and condition; after the loop, the final return
LoopNext(idx, e) ==
    /\ i' = idx
    /\ IF idx < r.maxRetries
       THEN pc' = "loop" /\ ret' = ret
       ELSE Return(0, FALSE, maxRetriesError(e))

\* The caller cancels its context, or the context's deadline passes.
Cancel ==
    /\ ctx = "live"
    /\ ~Terminal
    /\ \E e \in {Canceled, DeadlineExceeded} : ctx' = e
    /\ canceledAt' = IF timerFired THEN "timerExpired" ELSE pc
    /\ sentAtCancel' = sent
    /\ UNCHANGED << auxVars, r, entry, urlValid, pc, i, attempt, resp, cancel, err, ret,
                    ferr, out, tokens, timer, timerFired, elapsed, waits, fetchWaits,
                    slept, attempts, recAttempts, totalAttempts, sent,
                    admitted, open >>

\* The caller invokes GetResponse, or a content fetcher whose
\* fetchContentsAsBytes loop makes its first attemptFetchContents call.
call ==
    /\ pc = "entry"
    /\ IF entry = "fetchContentsAsBytes" /\ ~(0 < r.maxRetries)
       THEN /\ pc' = "done"
            /\ out' = [bytes |-> FALSE, err |-> maxRetriesError(ferr)]
       ELSE /\ pc' = "limiter"
            /\ UNCHANGED out
    /\ UNCHANGED << auxVars, r, entry, urlValid, ctx, canceledAt, sentAtCancel, i,
                    attempt, resp, cancel, err, ret, ferr, tokens, timer,
                    timerFired, elapsed, waits, fetchWaits, slept, attempts,
                    recAttempts, totalAttempts, sent, admitted, open >>

\* A timer (limiter reservation, backoff) expires while the call is blocked
\* in the select on it.  Every timer here has a positive duration, so it is
\* never ready when the select is entered: the select is decided by the
\* first of the two events, and once ctx.Done() is closed the timer no
\* longer matters.
TimerFires ==
    /\ pc \in {"limiterWait", "backoff", "fetchBackoff"}
    /\ ctx = "live"
    /\ ~timerFired
    /\ timerFired' = TRUE
    /\ UNCHANGED << auxVars, r, entry, urlValid, ctx, canceledAt, sentAtCancel, pc, i,
                    attempt, resp, cancel, err, ret, ferr, out, tokens, timer,
                    elapsed, waits, fetchWaits, slept, attempts, recAttempts,
                    totalAttempts, sent, admitted, open >>

\* which case of a select on timer.C and ctx.Done() is taken
selectCase == IF timerFired THEN "timer" ELSE "done"

\* GetResponse entry: r.limiter.Wait(ctx) up to the point where it blocks.
\* Wait fails at once on a finished context, takes a token if there is one,
\* and otherwise reserves one and waits, or fails when the context's deadline
\* comes before the reservation.
WaitDeadlineError == << "rate: Wait(n=1) would exceed context deadline" >>

limiterWait ==
    /\ pc = "limiter"
    /\ timerFired' = FALSE
    /\ UNCHANGED timer
    /\ IF ~r.isRateLimited
       THEN /\ LoopNext(0, Nil)
            /\ UNCHANGED << tokens, admitted >>
       ELSE IF ctx # "live"
       THEN /\ Return(0, FALSE, << ctx >>)
            /\ UNCHANGED << i, tokens, admitted >>
       ELSE IF tokens > 0
       THEN /\ tokens' = tokens - 1
            /\ admitted' = admitted + 1
            /\ LoopNext(0, Nil)
       ELSE \E blocks \in BOOLEAN :
              IF blocks
              THEN /\ pc' = "limiterWait"
                   /\ tokens' = tokens - 1
                   /\ UNCHANGED << i, ret, admitted >>
              ELSE /\ Return(0, FALSE, WaitDeadlineError)
                   /\ UNCHANGED << i, tokens, admitted >>
    /\ UNCHANGED << auxVars, r, entry, urlValid, ctx, canceledAt, sentAtCancel, attempt, resp, cancel,
                    err, ferr, out, elapsed, waits, fetchWaits, slept,
                    attempts, recAttempts, totalAttempts, sent, open >>

\* mutant: the error of limiter.Wait is dropped and the loop is entered
limiterWakeIgnoresError ==
    /\ pc = "limiterWait"
    /\ timerFired \/ ctx # "live"
    /\ admitted' = admitted + 1
    /\ LoopNext(0, Nil)
    /\ tokens' = tokens + 1
    /\ timerFired' = FALSE
    /\ UNCHANGED << auxVars, r, entry, urlValid, ctx, canceledAt, sentAtCancel,
                    attempt, resp, cancel, err, ferr, out, timer, elapsed,
                    waits, fetchWaits, slept, attempts, recAttempts,
                    totalAttempts, sent, open >>

\* limiter.Wait wakes up: the reservation's timer or ctx.Done(), whichever
\* came first.
limiterWake ==
    /\ pc = "limiterWait"
    /\ timerFired \/ ctx # "live"
    /\ LET branch == selectCase IN
         /\ IF branch = "timer"
            THEN \* the reserved token has accrued and is spent
                 /\ admitted' = admitted + 1
                 /\ LoopNext(0, Nil)
            ELSE \* the reservation is cancelled and its token restored
                 /\ Return(0, FALSE, << ctx >>)
                 /\ UNCHANGED << i, admitted >>
    /\ tokens' = tokens + 1
    /\ timerFired' = FALSE
    /\ UNCHANGED << auxVars, r, entry, urlValid, ctx, canceledAt, sentAtCancel,
                    attempt, resp, cancel, err, ferr, out, timer, elapsed,
                    waits, fetchWaits, slept, attempts, recAttempts,
                    totalAttempts, sent, open >>

\* createRequestAndGetResponse: on a bad URL no request is built and the
\* returned cancel is nil; otherwise client.Do answers.
createRequestAndGetResponse(nextpc) ==
    /\ pc' = nextpc
    /\ IF ~urlValid
       THEN /\ resp' = 0
            /\ cancel' = FALSE
            /\ err' = << RequestError >>
            /\ UNCHANGED << sent, open >>
       ELSE \E o \in Outcomes :
            /\ resp' = o.status
            /\ cancel' = TRUE
            /\ err' = o.err
            /\ sent' = IF ctx = "live" THEN sent + 1 ELSE sent
            /\ open' = IF o.status # 0 THEN open + 1 ELSE open

\* GetResponse, attempt loop: resp, cancel, err = r.createRequestAndGetResponse
attemptRequest ==
    /\ pc = "loop"
    /\ createRequestAndGetResponse("classify")
    /\ attempts' = attempts + 1
    /\ totalAttempts' = totalAttempts + 1
    /\ UNCHANGED << auxVars, r, entry, urlValid, ctx, canceledAt, sentAtCancel, i, attempt, ret, ferr,
                    out, tokens, timer, timerFired, elapsed, waits, fetchWaits,
                    slept, recAttempts, admitted >>

\* GetResponse, attempt loop: the rest of one iteration, up to a return, the
\* entry of the recovery loop, the start of the backoff timer or the continue.
attemptClassify ==
    /\ pc = "classify"
    /\ IF err = Nil /\ IsNoRetry404(resp)
       THEN /\ Return(resp, cancel, notFoundNoRetryError)
            /\ UNCHANGED << i, resp, open, waits, timer, timerFired, elapsed >>
       ELSE IF err = Nil /\ IsSuccess(resp)
       THEN /\ Return(resp, cancel, Nil)
            /\ UNCHANGED << i, resp, open, waits, timer, timerFired, elapsed >>
       ELSE IF ~cancel
       THEN \* cancel() on a nil CancelFunc
            /\ pc' = "panic"
            /\ UNCHANGED << i, resp, ret, open, waits, timer, timerFired,
                            elapsed >>
       ELSE \* cancel(), then resp.Body.Close() when resp is not nil
            /\ open' = IF resp # 0 THEN open - 1 ELSE open
            /\ UNCHANGED resp
            /\ IF isCanceledOrDeadline(err)
               THEN /\ Return(0, FALSE, << Canceled >>)
                    /\ UNCHANGED << i, waits, timer, timerFired, elapsed >>
               ELSE IF isLastAttemptWithPolicy(i)
               THEN \E probes \in [1..ProbeCount -> BOOLEAN] :
                      IF IsNetworkUnavailable(err, probes)
                      THEN /\ pc' = "recovery"
                           /\ elapsed' = 0
                           /\ UNCHANGED << i, ret, waits, timer, timerFired >>
                      ELSE /\ LoopNext(i + 1, err)
                           /\ UNCHANGED << waits, timer, timerFired, elapsed >>
               ELSE /\ pc' = "backoff"
                    /\ timerFired' = FALSE
                    /\ timer' = backoffDuration(i, resp)
                    /\ waits' = waits + 1
                    /\ UNCHANGED << i, ret, elapsed >>
    /\ UNCHANGED << auxVars, r, entry, urlValid, ctx, canceledAt, sentAtCancel, attempt, cancel, err,
                    ferr, out, tokens, fetchWaits, slept, attempts,
                    recAttempts, totalAttempts, sent, admitted >>

\* mutant: the wait is a plain sleep that does not watch ctx.Done()
backoffWakeTimerOnly ==
    /\ pc = "backoff"
    /\ timerFired
    /\ timer' = 0
    /\ timerFired' = FALSE
    /\ LoopNext(i + 1, err)
    /\ UNCHANGED << auxVars, r, entry, urlValid, ctx, canceledAt, sentAtCancel,
                    attempt, resp, cancel, err, ferr, out, tokens, elapsed,
                    waits, fetchWaits, slept, attempts, recAttempts,
                    totalAttempts, sent, admitted, open >>

\* backoff: select on ctx.Done() and timer.C, then GetResponse's handling of
\* the result (return the error, or go on with the next iteration).
backoffWake ==
    /\ pc = "backoff"
    /\ timer' = 0
    /\ timerFired' = FALSE
    /\ timerFired \/ ctx # "live"
    /\ LET branch == selectCase IN
         /\ IF branch = "timer"
            THEN LoopNext(i + 1, err)
            ELSE /\ Return(0, FALSE, << ctx >>)
                 /\ UNCHANGED i
    /\ UNCHANGED << auxVars, r, entry, urlValid, ctx, canceledAt, sentAtCancel, attempt, resp, cancel,
                    err, ferr, out, tokens, elapsed, waits,
                    fetchWaits, slept, attempts, recAttempts, totalAttempts,
                    sent, admitted, open >>

\* mutant: the sleep always lasts the whole recovery interval
sleepDurationFullInterval(remainingTime) == r.networkUnavailableBackOff

\* sleepDuration := min(remainingTime, r.networkUnavailableBackOff)
sleepDuration(remainingTime) == Min(remainingTime, r.networkUnavailableBackOff)

\* GetResponse, recovery loop: the budget check, then time.Sleep begins
recoverySleep ==
    /\ pc = "recovery"
    /\ LET remainingTime == r.networkUnavailableMaxWait - elapsed
       IN  IF remainingTime <= 0
           THEN /\ Return(0, FALSE, << ErrNetworkUnavailableAfterMaxWait >>)
                /\ UNCHANGED timer
           ELSE /\ pc' = "recoverySleeping"
                /\ timer' = sleepDuration(remainingTime)
                /\ UNCHANGED ret
    /\ UNCHANGED << auxVars, r, entry, urlValid, ctx, canceledAt, sentAtCancel, i, attempt, resp,
                    cancel, err, ferr, out, tokens, timerFired, elapsed, slept, waits,
                    fetchWaits, attempts, recAttempts, totalAttempts, sent,
                    admitted, open >>

\* GetResponse, recovery loop: time.Sleep(sleepDuration) returns.  It takes
\* no context: it returns when the duration has passed and not before.
recoveryWake ==
    /\ pc = "recoverySleeping"
    /\ pc' = "recoveryRequest"
    /\ elapsed' = elapsed + timer
    /\ slept' = slept + timer
    /\ timer' = 0
    /\ UNCHANGED << auxVars, r, entry, urlValid, ctx, canceledAt, sentAtCancel, i, attempt, resp,
                    cancel, err, ret, ferr, out, tokens, timerFired, waits,
                    fetchWaits, attempts, recAttempts, totalAttempts, sent,
                    admitted, open >>

\* GetResponse, recovery loop: resp, cancel, err = r.createRequestAndGetResponse
\* (the request takes some time of the budget)
recoveryRequest ==
    /\ pc = "recoveryRequest"
    /\ createRequestAndGetResponse("recoveryClassify")
    /\ recAttempts' = recAttempts + 1
    /\ \E d \in 0..MaxRequestTime : elapsed' = elapsed + d
    /\ UNCHANGED << auxVars, r, entry, urlValid, ctx, canceledAt, sentAtCancel, i, attempt, ret, ferr,
                    out, tokens, timer, timerFired, waits, fetchWaits, slept,
                    attempts, totalAttempts, admitted >>

\* GetResponse, recovery loop: the rest of one iteration
recoveryClassify ==
    /\ pc = "recoveryClassify"
    /\ IF err = Nil /\ IsNoRetry404(resp)
       THEN /\ Return(resp, cancel, StatusCodeError(resp))
            /\ UNCHANGED open
       ELSE IF err = Nil /\ IsNoRetry422(resp)
       THEN /\ Return(resp, cancel, StatusCodeError(resp))
            /\ UNCHANGED open
       ELSE IF err = Nil /\ IsSuccess(resp)
       THEN /\ Return(resp, cancel, Nil)
            /\ UNCHANGED open
       ELSE \* cancel(), then resp.Body.Close() when resp is not nil
            /\ open' = IF resp # 0 THEN open - 1 ELSE open
            /\ IF err # Nil /\ ~IsPossibleNetworkOrDNSIssueErr(err)
               THEN Return(0, FALSE, err)
               ELSE pc' = "recovery" /\ ret' = ret
    /\ UNCHANGED << auxVars, r, entry, urlValid, ctx, canceledAt, sentAtCancel, i, attempt, resp,
                    cancel, err, ferr, out, tokens, timer, timerFired, elapsed, waits,
                    fetchWaits, slept, attempts, recAttempts, totalAttempts,
                    sent, admitted >>

(* ---------------- the content fetcher ---------------- *)
\* what reading the body through the decoder can end in
ReadStreamError == << StreamError >>
ReadOtherError == << "unexpected EOF" >>
DecodeOutcomes ==
    {Nil, << GzipHeaderError >>, << CharsetError >>, ReadStreamError,
     ReadOtherError}

\* fetchContentsAsBytes: strings.Contains(err.Error(), "stream error")
isStreamError(e) == Contains(e, StreamError)

\* attemptFetchContents after GetResponse has returned, and the handling of
\* its result by fetchContentsAsBytes up to the return or the backoff timer.
attemptFetchContents ==
    /\ pc = "returned"
    /\ entry = "fetchContentsAsBytes"
    /\ \E d \in DecodeOutcomes :
         LET failed == ret.err # Nil
             aerr == IF failed THEN Wrap(FailedToGetResponse, ret.err)
                     ELSE IF ret.resp = 0
                     THEN << "failed to get a response (nil) for the URL" >>
                     ELSE d
         IN  /\ failed => d = Nil
             \* the deferred resp.Body.Close() is registered after both checks
             /\ open' = IF ~failed /\ ret.resp # 0 THEN open - 1 ELSE open
             /\ ferr' = aerr
             /\ IF aerr = Nil
                THEN /\ pc' = "done"
                     /\ out' = [bytes |-> TRUE, err |-> Nil]
                     /\ UNCHANGED << fetchWaits, timer, timerFired >>
                ELSE IF isStreamError(aerr)
                THEN /\ pc' = "fetchBackoff"
                     /\ timerFired' = FALSE
                     /\ timer' = backoffDuration(attempt, 0)
                     /\ fetchWaits' = fetchWaits + 1
                     /\ UNCHANGED out
                ELSE /\ pc' = "done"
                     /\ out' = [bytes |-> FALSE, err |-> aerr]
                     /\ UNCHANGED << fetchWaits, timer, timerFired >>
    /\ UNCHANGED << auxVars, r, entry, urlValid, ctx, canceledAt, sentAtCancel, i, attempt, resp,
                    cancel, err, ret, tokens, elapsed, waits, slept, attempts,
                    recAttempts, totalAttempts, sent, admitted >>

\* fetchContentsAsBytes: backoff's select, then continue with the next
\* GetResponse call or leave the loop.
fetchBackoffWake ==
    /\ pc = "fetchBackoff"
    /\ timer' = 0
    /\ timerFired' = FALSE
    /\ timerFired \/ ctx # "live"
    /\ LET branch == selectCase IN
         /\ IF branch = "done"
            THEN /\ pc' = "done"
                 /\ out' = [bytes |-> FALSE, err |-> << ctx >>]
                 /\ UNCHANGED << attempt, i, resp, cancel, err, ret, waits,
                                 slept, attempts, recAttempts, elapsed >>
            ELSE IF attempt + 1 < r.maxRetries
            THEN /\ pc' = "limiter"
                 /\ attempt' = attempt + 1
                 /\ i' = 0
                 /\ resp' = 0
                 /\ cancel' = FALSE
                 /\ err' = Nil
                 /\ ret' = NoRet
                 /\ waits' = 0
                 /\ slept' = 0
                 /\ attempts' = 0
                 /\ recAttempts' = 0
                 /\ elapsed' = 0
                 /\ UNCHANGED out
            ELSE /\ pc' = "done"
                 /\ attempt' = attempt + 1
                 /\ out' = [bytes |-> FALSE, err |-> maxRetriesError(ferr)]
                 /\ UNCHANGED << i, resp, cancel, err, ret, waits, slept,
                                 attempts, recAttempts, elapsed >>
    /\ UNCHANGED << auxVars, r, entry, urlValid, ctx, canceledAt, sentAtCancel, ferr, tokens,
                    fetchWaits, totalAttempts, sent, admitted,
                    open >>

Next ==
    \/ call
    \/ Cancel
    \/ TimerFires
    \/ limiterWait
    \/ limiterWake
    \/ attemptRequest
    \/ attemptClassify
    \/ backoffWake
    \/ recoverySleep
    \/ recoveryWake
    \/ recoveryRequest
    \/ recoveryClassify
    \/ attemptFetchContents
    \/ fetchBackoffWake

Spec == Init /\ [][Next]_vars

(* ---------------- GetCSV on the engine ---------------- *)
FailedToGetCSV == "failed to get a csv response for the URL"

\* GetCSV after GetResponse has returned: defer cancel(), the test of err
\* and resp, the deferred Body.Close, io.ReadAll, and at the return the
\* deferred calls.  The deferred cancel is the value GetResponse returned:
\* calling it when it is nil panics.
getCSV ==
    /\ pc = "returned"
    /\ entry = "GetCSV"
    /\ \E readOk \in BOOLEAN :
         LET failed == ret.err # Nil \/ ret.resp = 0 IN
         /\ failed => readOk
         /\ open' = IF failed THEN open ELSE open - 1
         /\ IF ~ret.cancel
            THEN pc' = "panic" /\ UNCHANGED out
            ELSE /\ pc' = "done"
                 /\ out' = IF failed
                           THEN [bytes |-> FALSE,
                                 err |-> Wrap(FailedToGetCSV, ret.err)]
                           ELSE IF readOk
                           THEN [bytes |-> TRUE, err |-> Nil]
                           ELSE [bytes |-> FALSE, err |-> ReadOtherError]
    /\ UNCHANGED << auxVars, r, entry, urlValid, ctx, canceledAt,
                    sentAtCancel, i, attempt, resp, cancel, err, ret, ferr,
                    tokens, timer, timerFired, elapsed, waits, fetchWaits,
                    slept, attempts, recAttempts, totalAttempts, sent,
                    admitted >>

\* GetCSV calls GetResponse with context.Background(), which never ends;
\* the limiter's bucket is full, so the call does not wait for a token.
CSVInit ==
    /\ r \in Configs
    /\ entry = "GetCSV"
    /\ urlValid \in BOOLEAN
    /\ tokens = IF r.isRateLimited THEN BurstSize ELSE 0
    /\ EngineAtEntry

NextCSV ==
    \/ call
    \/ TimerFires
    \/ limiterWait
    \/ attemptRequest
    \/ attemptClassify
    \/ backoffWake
    \/ recoverySleep
    \/ recoveryWake
    \/ recoveryRequest
    \/ recoveryClassify
    \/ getCSV

InitCSV ==
    /\ CSVInit /\ LimiterIdle /\ ProbeIdle /\ ChaserIdle /\ StreamIdle
    /\ OthersIdle

SpecCSV == InitCSV /\ [][NextCSV]_vars

(* ---------------- many calls on one rate-limited engine ---------------- *)
\* SECAttemptsPerSecond, SECBurstSize: WithRateLimiting(10, 10)
SECAttemptsPerSecond == 10
SECBurstSize == 10
\* the calls fired on the shared engine, and the time over which they start
ConcurrentCalls == 20
ArrivalSpread == 1

\* a rate-limited engine on which no call of the single-call model runs
IdleConfig ==
    [maxRetries |-> 1, backoffFactor |-> 5, isRateLimited |-> TRUE,
     noRetry404 |-> FALSE, noRetry422 |-> FALSE, longBackOffOn429 |-> 0,
     resolveNetworkUnavailable |-> FALSE, networkUnavailableBackOff |-> 0,
     networkUnavailableMaxWait |-> 0]

EngineIdle ==
    /\ EngineInit
    /\ r = IdleConfig
    /\ entry = "GetResponse"
    /\ urlValid = TRUE
    /\ tokens = 0

\* rate.NewLimiter(limit, burst): a bucket of burst tokens, full at first;
\* an engine that has served calls before holds fewer.
LimiterInit ==
    /\ clock = 0
    /\ limTokens \in 0..SECBurstSize
    /\ limLast = 0
    /\ toCall = ConcurrentCalls
    /\ reserved = << >>
    /\ admitLog = << 0 >>

\* the calls admitted at the current time, plus one
Admit(log) == [log EXCEPT ![Len(log)] = @ + 1]

\* GetResponse entry of one more caller: r.limiter.Wait(ctx) under a context
\* that stays live.  The bucket is refilled for the time passed (one token
\* per interval, up to burst) and one token is taken; with a token at hand
\* Wait returns at once, otherwise the call sleeps until its token accrues.
\* The server always succeeds, so an admitted call makes its one request.
limiterReserve ==
    /\ toCall > 0
    /\ clock <= ArrivalSpread
    /\ LET tok == Min(SECBurstSize, limTokens + (clock - limLast)) - 1
       IN  /\ limTokens' = tok
           /\ limLast' = clock
           /\ toCall' = toCall - 1
           /\ IF tok >= 0
              THEN /\ admitLog' = Admit(admitLog)
                   /\ UNCHANGED reserved
              ELSE /\ reserved' = Append(reserved, clock + (0 - tok))
                   /\ UNCHANGED admitLog
    /\ UNCHANGED << clock, engineVars, probeVars, chaserVars, streamVars, decoderVars, raceVars, moreVars >>

\* limiter.Wait of the longest-waiting call returns nil: its time has come
limiterAdmit ==
    /\ reserved # << >>
    /\ Head(reserved) = clock
    /\ reserved' = Tail(reserved)
    /\ admitLog' = Admit(admitLog)
    /\ UNCHANGED << clock, limTokens, limLast, toCall, engineVars, probeVars,
                    chaserVars, streamVars, decoderVars, raceVars, moreVars >>

\* one token interval passes; a call whose time has come wakes up first
limiterTick ==
    /\ reserved # << >> => Head(reserved) > clock
    /\ reserved # << >> \/ (toCall > 0 /\ clock < ArrivalSpread)
    /\ clock' = clock + 1
    /\ admitLog' = Append(admitLog, 0)
    /\ UNCHANGED << limTokens, limLast, toCall, reserved, engineVars,
                    probeVars, chaserVars, streamVars, decoderVars, raceVars, moreVars >>

LimiterNext ==
    \/ limiterReserve
    \/ limiterAdmit
    \/ limiterTick

InitLimiter ==
    /\ EngineIdle /\ LimiterInit /\ ProbeIdle /\ ChaserIdle /\ StreamIdle
    /\ OthersIdle

SpecLimiter == InitLimiter /\ [][LimiterNext]_vars

(* ---------------- the outage check and its probes ---------------- *)
\* the errors IsNetworkUnavailable is called with
ProbeErrs ==
    {Nil, UrlError(DialTimeout), UrlError(ConnRefused), UrlError(StreamError),
     << RequestError >>}

ProbeInit ==
    /\ probeErr \in ProbeErrs
    /\ probePc = "call"
    /\ probeOutcome = [k \in 1..ProbeCount |-> "idle"]
    /\ responses = << >>
    /\ received = 0
    /\ checkResult = "none"
    /\ unavailable = FALSE

\* IsNetworkUnavailable up to the start of the probes: false at once for an
\* error that does not look like a network issue; otherwise
\* isNetworkAvailableCheck starts one goroutine per url.
networkCheckCall ==
    /\ probePc = "call"
    /\ IF ~IsPossibleNetworkOrDNSIssueErr(probeErr)
       THEN /\ probePc' = "returned"
            /\ unavailable' = FALSE
            /\ UNCHANGED probeOutcome
       ELSE /\ probePc' = "receive"
            /\ probeOutcome' = [k \in 1..ProbeCount |-> "running"]
            /\ UNCHANGED unavailable
    /\ UNCHANGED << probeErr, responses, received, checkResult, engineVars,
                    limiterVars, chaserVars, streamVars, decoderVars, raceVars, moreVars >>

\* one probe goroutine: client.Do answers or fails (at the latest at its
\* timeout) and the goroutine sends err == nil; the channel holds one value
\* per url, so the send never blocks
probeReports(k) ==
    /\ probeOutcome[k] = "running"
    /\ \E ok \in BOOLEAN :
         /\ probeOutcome' =
               [probeOutcome EXCEPT ![k] = IF ok THEN "ok" ELSE "failed"]
         /\ responses' = Append(responses, ok)
    /\ UNCHANGED << probeErr, probePc, received, checkResult, unavailable,
                    engineVars, limiterVars, chaserVars, streamVars, decoderVars, raceVars, moreVars >>

\* mutant: the loop over urls gives up after the first value
allReceivedAfterFirst(n) == n >= 1

\* for range urls: the loop ends when one value per url has been received
allReceived(n) == n = ProbeCount

\* one iteration of the loop over urls: receive a value; true ends the check
\* with true, and after the last value the check ends with false.
\* IsNetworkUnavailable returns the result of the check as it is.
probeReceive ==
    /\ probePc = "receive"
    /\ responses # << >>
    /\ responses' = Tail(responses)
    /\ received' = received + 1
    /\ IF Head(responses)
       THEN /\ checkResult' = "true"
            /\ unavailable' = TRUE
            /\ probePc' = "returned"
       ELSE IF allReceived(received + 1)
       THEN /\ checkResult' = "false"
            /\ unavailable' = FALSE
            /\ probePc' = "returned"
       ELSE UNCHANGED << checkResult, unavailable, probePc >>
    /\ UNCHANGED << probeErr, probeOutcome, engineVars, limiterVars,
                    chaserVars, streamVars, decoderVars, raceVars, moreVars >>

ProbeNext ==
    \/ networkCheckCall
    \/ \E k \in 1..ProbeCount : probeReports(k)
    \/ probeReceive

InitProbe ==
    /\ EngineIdle /\ LimiterIdle /\ ProbeInit /\ ChaserIdle /\ StreamIdle
    /\ OthersIdle

SpecProbe == InitProbe /\ [][ProbeNext]_vars

(* ---------------- the redirect chaser ---------------- *)
\* len(via) >= 10 in the CheckRedirect hook of NewRedirectedRequest
RedirectCap == 10
\* the redirects a server answers one request chain with, at most
MaxServerRedirects == 11

\* GetTwitterShortURLFetcher's options
TwitterConfig ==
    [maxRetries |-> 3, backoffFactor |-> 5, isRateLimited |-> FALSE,
     noRetry404 |-> TRUE, noRetry422 |-> TRUE, longBackOffOn429 |-> 60,
     resolveNetworkUnavailable |-> FALSE, networkUnavailableBackOff |-> 0,
     networkUnavailableMaxWait |-> 0]

\* NewRedirectedRequest(WithAttemptsAndBackoff(2, 3 * time.Second))
PlainConfig ==
    [maxRetries |-> 2, backoffFactor |-> 3,
     isRateLimited |-> FALSE, noRetry404 |-> FALSE, noRetry422 |-> FALSE,
     longBackOffOn429 |-> 0, resolveNetworkUnavailable |-> FALSE,
     networkUnavailableBackOff |-> 0, networkUnavailableMaxWait |-> 0]

\* bodies with no pattern, with one of the two, and with both
Bodies ==
    {NoBody, [meta |-> "b", js |-> "a"]}
    \cup { [meta |-> p, js |-> NoPage] : p \in Pages }
    \cup { [meta |-> NoPage, js |-> p] : p \in Pages }

\* NewRedirectedRequest(options...) and the call on the page "a"
ChaserInit ==
    /\ EngineAtEntry
    /\ tokens = 0
    /\ r \in {TwitterConfig, PlainConfig}
    /\ entry = "getContentsAsBytesWithContextAndFinalURL"
    /\ urlValid = TRUE
    /\ loggedRedirects \in BOOLEAN
    /\ r = TwitterConfig => loggedRedirects
    /\ site \in [Pages -> Bodies]
    /\ urlStr = "a"
    /\ checkForJavaRedirect = TRUE
    /\ fetches = 0
    /\ via = 0
    /\ reqURL = NoURL
    /\ finalURL = NoURL
    /\ usedLast = FALSE
    /\ deferred = 0
    /\ chRet = NoChRet

\* extractJavaScriptRedirect: the meta-refresh pattern is tried first, then
\* the location.replace pattern
extractJavaScriptRedirect(content) ==
    IF content.meta # NoPage THEN [target |-> content.meta, found |-> TRUE]
    ELSE IF content.js # NoPage THEN [target |-> content.js, found |-> TRUE]
    ELSE [target |-> NoPage, found |-> FALSE]

\* the CheckRedirect hook installed by NewRedirectedRequest, after it has
\* stored req.URL: with a CheckRedirect set before (WithLoggedRedirects,
\* which returns nil) that one decides; otherwise the cap is applied
CheckRedirect(lenVia) ==
    IF loggedRedirects THEN "nil"
    ELSE IF lenVia >= RedirectCap THEN "ErrUseLastResponse"
    ELSE "nil"

\* GetContentsAsBytesWithContextAndFinalURL: url.Parse, then GetResponse
chaserCall ==
    /\ pc = "entry"
    /\ pc' = "limiter"
    /\ fetches' = fetches + 1
    /\ UNCHANGED << r, entry, urlValid, ctx, canceledAt, sentAtCancel, i,
                    attempt, resp, cancel, err, ret, ferr, out, tokens, timer,
                    timerFired, elapsed, waits, fetchWaits, slept, attempts,
                    recAttempts, totalAttempts, sent, admitted, open,
                    loggedRedirects, site, urlStr, checkForJavaRedirect, via,
                    reqURL, finalURL, usedLast, deferred, chRet,
                    limiterVars, probeVars, streamVars, decoderVars, raceVars, moreVars >>

\* GetResponse, attempt loop: createRequestAndGetResponse builds the request
\* and client.Do sends it
chaserAttempt ==
    /\ pc = "loop"
    /\ pc' = "transport"
    /\ cancel' = TRUE
    /\ via' = 1
    /\ reqURL' = [page |-> urlStr, hop |-> 0]
    /\ usedLast' = FALSE
    /\ attempts' = attempts + 1
    /\ totalAttempts' = totalAttempts + 1
    /\ sent' = sent + 1
    /\ UNCHANGED << r, entry, urlValid, ctx, canceledAt, sentAtCancel, i,
                    attempt, resp, err, ret, ferr, out, tokens, timer,
                    timerFired, elapsed, waits, fetchWaits, slept,
                    recAttempts, admitted, open,
                    loggedRedirects, site, urlStr, checkForJavaRedirect,
                    fetches, finalURL, deferred, chRet,
                    limiterVars, probeVars, streamVars, decoderVars, raceVars, moreVars >>

\* client.Do: the server answers with a redirect.  The hook records the URL
\* of the next request and decides: nil lets the client follow, and
\* http.ErrUseLastResponse makes client.Do return the redirect response
\* (status 302 here) with its body open and a nil error.
transportRedirect ==
    /\ pc = "transport"
    /\ via <= MaxServerRedirects
    /\ LET next == [page |-> reqURL.page, hop |-> reqURL.hop + 1]
       IN  /\ finalURL' = next
           /\ IF CheckRedirect(via) = "nil"
              THEN /\ via' = via + 1
                   /\ reqURL' = next
                   /\ UNCHANGED << pc, resp, err, open, usedLast >>
              ELSE /\ pc' = "classify"
                   /\ resp' = 302
                   /\ err' = Nil
                   /\ open' = open + 1
                   /\ usedLast' = TRUE
                   /\ UNCHANGED << via, reqURL >>
    /\ UNCHANGED << r, entry, urlValid, ctx, canceledAt, sentAtCancel, i,
                    attempt, cancel, ret, ferr, out, tokens, timer,
                    timerFired, elapsed, waits, fetchWaits, slept, attempts,
                    recAttempts, totalAttempts, sent, admitted,
                    loggedRedirects, site, urlStr, checkForJavaRedirect,
                    fetches, deferred, chRet, limiterVars, probeVars, streamVars, decoderVars, raceVars, moreVars >>

\* client.Do: the server answers the request with a final status, or the
\* transport fails
transportAnswer ==
    /\ pc = "transport"
    /\ pc' = "classify"
    /\ \E o \in Outcomes :
         /\ resp' = o.status
         /\ err' = o.err
         /\ open' = IF o.status # 0 THEN open + 1 ELSE open
    /\ UNCHANGED << r, entry, urlValid, ctx, canceledAt, sentAtCancel, i,
                    attempt, cancel, ret, ferr, out, tokens, timer,
                    timerFired, elapsed, waits, fetchWaits, slept, attempts,
                    recAttempts, totalAttempts, sent, admitted,
                    chaserVars, limiterVars, probeVars, streamVars, decoderVars, raceVars, moreVars >>

\* mutant: the follow-on call checks for a client-side redirect again
followOnCheckAgain == TRUE

\* the checkForJavaRedirect argument of the follow-on call
followOnCheck == FALSE

\* getContentsAsBytesWithContextAndFinalURL after GetResponse has returned:
\* the error returns, io.ReadAll, the client-side redirect test with the
\* follow-on call, or the return of body and URL.  A deferred Body.Close
\* runs when its own chaser call returns: the first body stays open during
\* the follow-on call.
chaserReturned ==
    /\ pc = "returned"
    /\ LET body == site[reqURL.page]
           redirect == extractJavaScriptRedirect(body)
       IN  IF ret.err # Nil
           THEN /\ pc' = "done"
                /\ chRet' = [bytes |-> NoBody,
                             url |-> [page |-> urlStr, hop |-> 0],
                             err |-> Wrap(FailedToGetResponse, ret.err)]
                /\ open' = open - deferred
                /\ deferred' = 0
                /\ UNCHANGED << urlStr, checkForJavaRedirect, fetches, i,
                                resp, cancel, err, ret, waits, attempts >>
           ELSE \E readOk \in BOOLEAN :
                IF ~readOk
                THEN /\ pc' = "done"
                     /\ chRet' = [bytes |-> NoBody, url |-> NoURL,
                                  err |-> << "failed to read response body" >>]
                     /\ open' = open - deferred - 1
                     /\ deferred' = 0
                     /\ UNCHANGED << urlStr, checkForJavaRedirect, fetches,
                                     i, resp, cancel, err, ret, waits,
                                     attempts >>
                ELSE IF checkForJavaRedirect /\ redirect.found
                THEN /\ pc' = "limiter"
                     /\ urlStr' = redirect.target
                     /\ checkForJavaRedirect' = followOnCheck
                     /\ fetches' = fetches + 1
                     /\ deferred' = deferred + 1
                     /\ i' = 0
                     /\ resp' = 0
                     /\ cancel' = FALSE
                     /\ err' = Nil
                     /\ ret' = NoRet
                     /\ waits' = 0
                     /\ attempts' = 0
                     /\ UNCHANGED << chRet, open >>
                ELSE /\ pc' = "done"
                     /\ chRet' = [bytes |-> body, url |-> reqURL,
                                  err |-> Nil]
                     /\ open' = open - deferred - 1
                     /\ deferred' = 0
                     /\ UNCHANGED << urlStr, checkForJavaRedirect, fetches,
                                     i, resp, cancel, err, ret, waits,
                                     attempts >>
    /\ UNCHANGED << r, entry, urlValid, ctx, canceledAt, sentAtCancel,
                    attempt, ferr, out, tokens, timer, timerFired, elapsed,
                    fetchWaits, slept, recAttempts, totalAttempts, sent,
                    admitted, loggedRedirects, site, via, reqURL, finalURL,
                    usedLast, limiterVars, probeVars, streamVars, decoderVars, raceVars, moreVars >>

ChaserNext ==
    \/ chaserCall
    \/ limiterWait
    \/ chaserAttempt
    \/ transportRedirect
    \/ transportAnswer
    \/ attemptClassify
    \/ TimerFires
    \/ backoffWake
    \/ chaserReturned

InitChaser ==
    ChaserInit /\ LimiterIdle /\ ProbeIdle /\ StreamIdle /\ OthersIdle

SpecChaser == InitChaser /\ [][ChaserNext]_vars

(* ---------------- the JSONL stream fetcher ---------------- *)
StatusPartialContent == 206
\* the requests one run may issue in the model
MaxPolls == 3

\* A stream is a sequence of bytes.  A start line consists of the bytes
\* Sa Sb Sc, an end line of Ea Eb Ec, where Sa Sb is the prefix
\* {"type":"start" and Ea Eb the prefix {"type":"end"; "d" is a data line;
\* NL ends a line.
NL == "NL"
StartLine == << "Sa", "Sb", "Sc" >>
EndLine == << "Ea", "Eb", "Ec" >>
DataLine == << "d" >>
\* lines with a sentinel prefix that are not valid JSON
BadStartLine == << "Sa", "Sb", "x" >>
BadEndLine == << "Ea", "Eb", "x" >>
Streams ==
    { StartLine \o << NL >> \o EndLine \o << NL >>,
      StartLine \o << NL >> \o DataLine \o << NL >> \o EndLine \o << NL >>,
      BadStartLine \o << NL >> \o BadEndLine \o << NL >> \o EndLine
          \o << NL >> \o DataLine \o << NL >> }

\* strings.HasPrefix(line, prefix)
HasPrefix(line, prefix) ==
    Len(line) >= Len(prefix) /\ SubSeq(line, 1, Len(prefix)) = prefix

\* mutant: every line parses
UnmarshalAlwaysOk(line) == TRUE

\* json.Unmarshal([]byte(line), &msg) returns nil: the line is a whole
\* JSON object
UnmarshalOk(line) == line \in {StartLine, EndLine, DataLine}

\* mutant: no parsed line has the type "end"
TypeOfNeverEnd(line) == ""

\* the type field of a parsed line
TypeOf(line) ==
    IF line = StartLine THEN "start"
    ELSE IF line = EndLine THEN "end"
    ELSE ""

\* position of the first NL of body, 0 if there is none
FirstNL(body) ==
    IF \E k \in 1..Len(body) : body[k] = NL
    THEN CHOOSE k \in 1..Len(body) :
             body[k] = NL /\ \A j \in 1..(k - 1) : body[j] # NL
    ELSE 0

\* bufio.Scanner with ScanLines: the next token is the bytes before the
\* first newline; at the end of the body the bytes left, when there are
\* any, are a last token
ScanToken(body) ==
    IF FirstNL(body) = 0 THEN body ELSE SubSeq(body, 1, FirstNL(body) - 1)
ScanRest(body) ==
    IF FirstNL(body) = 0 THEN << >>
    ELSE SubSeq(body, FirstNL(body) + 1, Len(body))

\* NewJSONLStreamFetcher and the start of the goroutine of FetchJSONLStream
StreamInit ==
    /\ stream \in Streams
    /\ avail = 0
    /\ stCtx = "live"
    /\ stPc = "request"
    /\ lastBytePosition = 0
    /\ stBody = << >>
    /\ contentLength = 0
    /\ stLine = NoLine
    /\ delivered = << >>
    /\ consumerActive = TRUE
    /\ StartMessage = NoLine
    /\ EndMessage = NoLine
    /\ stRequests = 0
    /\ ranges = << >>
    /\ stResponses = << >>
    /\ stOpen = 0
    /\ closes = 0
    /\ scanned = << >>
    /\ stExit = ""

\* a status other than 200 and 206, here the one a server gives for a range
\* it cannot serve
StatusRangeNotSatisfiable == 416

\* mutant: every status but 206 is handled as a 200
isWholeReplyNot206(status) == status # StatusPartialContent

\* else if resp.StatusCode == http.StatusOK
isWholeReply(status) == status = StatusOK

\* mutant: the goroutine returns without closing resultChan
streamReturnLeavesOpen(why) ==
    /\ stPc' = "closed"
    /\ stExit' = why
    /\ stOpen' = 0
    /\ closes' = closes

\* the goroutine returns: the deferred Body.Close calls of all iterations
\* run, then the deferred close(resultChan)
streamReturn(why) ==
    /\ stPc' = "closed"
    /\ stExit' = why
    /\ stOpen' = 0
    /\ closes' = closes + 1

\* ctx is canceled
streamCancel ==
    /\ stCtx = "live"
    /\ stPc # "closed"
    /\ stCtx' = "canceled"
    /\ UNCHANGED << stream, avail, stPc, lastBytePosition, stBody,
                    contentLength, stLine, delivered, consumerActive,
                    StartMessage, EndMessage, stRequests, ranges,
                    stResponses, stOpen, closes,
                    stExit, scanned, engineVars, limiterVars, probeVars, chaserVars, decoderVars, raceVars, moreVars >>

\* the consumer stops receiving from the channel
consumerStops ==
    /\ consumerActive
    /\ stPc # "closed"
    /\ consumerActive' = FALSE
    /\ UNCHANGED << stream, avail, stCtx, stPc, lastBytePosition, stBody,
                    contentLength, stLine, delivered, StartMessage,
                    EndMessage, stRequests, ranges, stResponses, stOpen,
                    closes, stExit, scanned, engineVars, limiterVars, probeVars, chaserVars, decoderVars, raceVars, moreVars >>

\* a request without a Range header
NoRange == 0 - 1

\* mutant: the header is set for every offset that is not negative
rangeHeaderFromZero(offset) == IF offset >= 0 THEN offset ELSE NoRange

\* if lastBytePosition > 0 { req.Header.Set("Range", "bytes=<offset>-") }:
\* the offset the header names, or NoRange
rangeHeader(offset) == IF offset > 0 THEN offset ELSE NoRange

\* top of the loop: the request is built, with a Range header when
\* lastBytePosition > 0, and HttpClient.Do sends it
streamRequest ==
    /\ stPc = "request"
    /\ stRequests < MaxPolls \/ stCtx # "live"
    /\ stPc' = "awaitResponse"
    /\ stRequests' = stRequests + 1
    /\ ranges' = Append(ranges, rangeHeader(lastBytePosition))
    /\ UNCHANGED << stream, avail, stCtx, lastBytePosition, stBody,
                    contentLength, stLine, delivered, consumerActive,
                    StartMessage, EndMessage, stResponses, stOpen, closes,
                    stExit, scanned, engineVars, limiterVars, probeVars, chaserVars, decoderVars, raceVars, moreVars >>

\* HttpClient.Do fails (always so once ctx is canceled): the goroutine
\* returns
streamRequestFails ==
    /\ stPc = "awaitResponse"
    /\ streamReturn("requestError")
    /\ UNCHANGED << stream, avail, stCtx, lastBytePosition, stBody,
                    contentLength, stLine, delivered, consumerActive,
                    StartMessage, EndMessage, stRequests, ranges,
                    stResponses, scanned, engineVars, limiterVars, probeVars,
                    chaserVars, decoderVars, raceVars, moreVars >>

\* HttpClient.Do returns a response.  The server, which may have got more
\* of the stream meanwhile, sends the bytes it has from the requested
\* offset on as 206, or all the bytes it has as 200, or answers with another
\* status (always so when the offset is beyond what it has).  Content-Length
\* is the length of the body, or -1 when the server does not announce it.
\* Then the branch on the status up to the first blocking point; io.ReadAll
\* of a 200 body may fail.
streamResponse ==
    /\ stPc = "awaitResponse"
    /\ stCtx = "live"
    /\ \E to \in avail..Len(stream),
          status \in {StatusPartialContent, StatusOK,
                      StatusRangeNotSatisfiable},
          announced \in BOOLEAN, readOk \in BOOLEAN :
         LET offset == IF ranges[Len(ranges)] > 0
                       THEN ranges[Len(ranges)] ELSE 0
             from == IF status = StatusOK THEN 0 ELSE offset
             body == SubSeq(stream, from + 1, to)
         IN  /\ offset > to => status = StatusRangeNotSatisfiable
             /\ status = StatusRangeNotSatisfiable => announced
             /\ status # StatusOK => readOk
             /\ avail' = to
             /\ stResponses' =
                   Append(stResponses,
                          [status |-> status, from |-> from, to |-> to])
             /\ contentLength' =
                   IF status = StatusRangeNotSatisfiable THEN 0
                   ELSE IF announced THEN Len(body) ELSE 0 - 1
             /\ IF status = StatusPartialContent
                THEN /\ stPc' = "scan"
                     /\ stBody' = body
                     /\ stOpen' = stOpen + 1
                     /\ UNCHANGED << stLine, closes, scanned, stExit >>
                ELSE IF isWholeReply(status)
                THEN IF readOk
                     THEN /\ stPc' = "send200"
                          /\ stLine' = body
                          /\ scanned' = Append(scanned, body)
                          /\ stBody' = << >>
                          /\ stOpen' = stOpen + 1
                          /\ UNCHANGED << closes, stExit >>
                     ELSE /\ streamReturn("readError")
                          /\ UNCHANGED << stBody, stLine, scanned >>
                ELSE /\ streamReturn("status")
                     /\ UNCHANGED << stBody, stLine, scanned >>
    /\ UNCHANGED << stream, stCtx, lastBytePosition, delivered,
                    consumerActive, StartMessage, EndMessage, stRequests,
                    ranges, engineVars, limiterVars, probeVars, chaserVars, decoderVars, raceVars, moreVars >>

\* scanner.Scan(): the next line, which is then offered on resultChan; or,
\* at the end of the body, lastBytePosition = resp.ContentLength and the
\* select on the poll timer and ctx.Done() begins
streamScan ==
    /\ stPc = "scan"
    /\ IF stBody = << >>
       THEN /\ stPc' = "poll"
            /\ lastBytePosition' = contentLength
            /\ UNCHANGED << stBody, stLine, scanned >>
       ELSE /\ stPc' = "send"
            /\ stLine' = ScanToken(stBody)
            /\ scanned' = Append(scanned, ScanToken(stBody))
            /\ stBody' = ScanRest(stBody)
            /\ UNCHANGED lastBytePosition
    /\ UNCHANGED << stream, avail, stCtx, contentLength, delivered,
                    consumerActive, StartMessage, EndMessage, stRequests,
                    ranges, stResponses, stOpen, closes,
                    stExit, engineVars, limiterVars, probeVars, chaserVars, decoderVars, raceVars, moreVars >>

\* reading the body fails: scanner.Scan() returns false and scanner.Err()
\* is not nil; the goroutine returns
streamScanFails ==
    /\ stPc = "scan"
    /\ streamReturn("scanError")
    /\ UNCHANGED << stream, avail, stCtx, lastBytePosition, stBody,
                    contentLength, stLine, delivered, consumerActive,
                    StartMessage, EndMessage, stRequests, ranges,
                    stResponses, scanned, engineVars, limiterVars, probeVars,
                    chaserVars, decoderVars, raceVars, moreVars >>

\* resultChan <- line completes because the consumer receives; then the
\* sentinel tests on the line, up to the return or the next Scan
streamSend ==
    /\ stPc = "send"
    /\ consumerActive
    /\ delivered' = Append(delivered, stLine)
    /\ StartMessage' =
          IF HasPrefix(stLine, << "Sa", "Sb" >>) /\ UnmarshalOk(stLine)
          THEN stLine ELSE StartMessage
    /\ IF HasPrefix(stLine, << "Ea", "Eb" >>) /\ UnmarshalOk(stLine)
          /\ TypeOf(stLine) = "end"
       THEN /\ EndMessage' = stLine
            /\ streamReturn("end")
       ELSE /\ stPc' = "scan"
            /\ UNCHANGED << EndMessage, stOpen, closes, stExit >>
    /\ UNCHANGED << stream, avail, stCtx, lastBytePosition, stBody,
                    contentLength, stLine, consumerActive, stRequests,
                    ranges, stResponses, scanned, engineVars, limiterVars, probeVars,
                    chaserVars, decoderVars, raceVars, moreVars >>

\* a 200 reply: resultChan <- string(body) completes, the goroutine returns
streamSendWhole ==
    /\ stPc = "send200"
    /\ consumerActive
    /\ delivered' = Append(delivered, stLine)
    /\ streamReturn("whole")
    /\ UNCHANGED << stream, avail, stCtx, lastBytePosition, stBody,
                    contentLength, stLine, consumerActive, StartMessage,
                    EndMessage, stRequests, ranges, stResponses,
                    scanned, engineVars, limiterVars, probeVars, chaserVars, decoderVars, raceVars, moreVars >>

\* the select after a drained 206 body takes the time.After case
streamPollTimer ==
    /\ stPc = "poll"
    /\ stPc' = "request"
    /\ UNCHANGED << stream, avail, stCtx, lastBytePosition, stBody,
                    contentLength, stLine, delivered, consumerActive,
                    StartMessage, EndMessage, stRequests, ranges,
                    stResponses, stOpen, closes,
                    stExit, scanned, engineVars, limiterVars, probeVars, chaserVars, decoderVars, raceVars, moreVars >>

\* the select takes the ctx.Done() case: the goroutine returns
streamPollCanceled ==
    /\ stPc = "poll"
    /\ stCtx # "live"
    /\ streamReturn("canceled")
    /\ UNCHANGED << stream, avail, stCtx, lastBytePosition, stBody,
                    contentLength, stLine, delivered, consumerActive,
                    StartMessage, EndMessage, stRequests, ranges,
                    stResponses, scanned, engineVars, limiterVars, probeVars,
                    chaserVars, decoderVars, raceVars, moreVars >>

StreamNext ==
    \/ streamCancel
    \/ consumerStops
    \/ streamRequest
    \/ streamRequestFails
    \/ streamResponse
    \/ streamScan
    \/ streamScanFails
    \/ streamSend
    \/ streamSendWhole
    \/ streamPollTimer
    \/ streamPollCanceled

InitStream ==
    /\ EngineIdle /\ LimiterIdle /\ ProbeIdle /\ ChaserIdle /\ StreamInit
    /\ OthersIdle

SpecStream == InitStream /\ [][StreamNext]_vars

\* the steps of the goroutine; canceling the context and a consumer that
\* stops receiving are steps of its environment
streamGoroutine ==
    \/ streamRequest
    \/ streamRequestFails
    \/ streamResponse
    \/ streamScan
    \/ streamScanFails
    \/ streamSend
    \/ streamSendWhole
    \/ streamPollTimer
    \/ streamPollCanceled

\* the goroutine is scheduled whenever it can take a step
SpecStreamLive == SpecStream /\ WF_vars(streamGoroutine)

(* ---------------- decoding the body of a response ---------------- *)
\* the functions that read the body of a successful response
Fetchers ==
    {"attemptFetchContents", "fetchContentsAsBytesPost",
     "fetchContentsAsReader", "GetCSV",
     "getContentsAsBytesWithContextAndFinalURL", "FetchJSONLStream"}

\* Content-Encoding headers
Encodings == {"", "gzip", "br"}

\* Content-Type headers, as the pieces the tests look at
ContentTypes ==
    { << "text/", "html", "charset=latin1" >>,
      << "text/", "plain" >>,
      << "application/", "json", "charset=utf8" >>,
      << "image/", "svg+", "xml" >>,
      << "application/", "octet-stream" >> }

\* A body: compressed or not, the encoding of its text, empty or not.
Contents ==
    { b \in [gz : BOOLEAN, cs : {"latin1", "utf8"}, empty : BOOLEAN] :
        b.gz => ~b.empty }

\* the reads of the body a fetch makes at most: header, preview, rest
MaxBodyReads == 3

\* gzip.Reader: the decompressed bytes
Gunzip(b) == [b EXCEPT !.gz = FALSE]

\* charset.DetermineEncoding: the charset the Content-Type declares; without
\* one, UTF-8 if the bytes are valid UTF-8 and windows-1252 otherwise
DetermineEncoding(b, contentType) ==
    IF Contains(contentType, "charset=latin1") THEN "latin1"
    ELSE IF Contains(contentType, "charset=utf8") THEN "utf8"
    ELSE IF b.cs = "utf8" /\ ~b.gz THEN "utf8"
    ELSE "latin1"

\* the reader of charset.NewReader: the bytes, taken as text in the encoding
\* determined, as UTF-8; bytes that are not text in that encoding do not
\* give the text back
Normalize(b, contentType) ==
    IF ~b.gz /\ DetermineEncoding(b, contentType) = b.cs
    THEN [b EXCEPT !.cs = "utf8"]
    ELSE [b EXCEPT !.cs = "garbled"]

\* strings.HasPrefix(contentType, "text/") || strings.Contains(contentType,
\* "json") || strings.Contains(contentType, "xml")
isTextual(contentType) ==
    \/ HasPrefix(contentType, << "text/" >>)
    \/ Contains(contentType, "json")
    \/ Contains(contentType, "xml")

\* the fetchers that look at Content-Encoding and Content-Type
Decoding ==
    {"attemptFetchContents", "fetchContentsAsBytesPost",
     "fetchContentsAsReader"}

\* the fetchers with a deferred resp.Body.Close()
ClosingBody == Fetchers \ {"fetchContentsAsReader"}

\* the fetchers with a deferred gzipReader.Close()
ClosingGzip == {"attemptFetchContents", "fetchContentsAsBytesPost"}

\* a successful response has been obtained and its body is open
DecoderInit ==
    /\ dFetcher \in Fetchers
    /\ dEncoding \in Encodings
    /\ dType \in ContentTypes
    /\ dWire \in Contents
    /\ dFaultAt \in 0..MaxBodyReads
    /\ dFaultKind \in {Nil, ReadStreamError, ReadOtherError}
    /\ (dFaultAt = 0) = (dFaultKind = Nil)
    /\ dPc = "gzip"
    /\ dReads = 0
    /\ dApplied = {}
    /\ bodyOpen = TRUE
    /\ gzipOpen = FALSE
    /\ dOut = NoResult
    /\ dRetry = FALSE

\* the next read of the body fails
ReadFails == dFaultAt = dReads + 1

\* the bytes read through the readers set up
Decoded ==
    LET plain == IF "gzip" \in dApplied THEN Gunzip(dWire) ELSE dWire
    IN  IF "charset" \in dApplied THEN Normalize(plain, dType) ELSE plain

\* mutant: fetchContentsAsBytes retries after no error
retriedNever(e) == FALSE

\* fetchContentsAsBytes: an error of attemptFetchContents whose text
\* contains "stream error" is followed by a backoff and another attempt
retried(e) == e # Nil /\ isStreamError(e)

\* the fetcher returns: its deferred calls run, and fetchContentsAsBytes
\* looks at the error of attemptFetchContents
DecoderReturn(bytes, reader, e, stage) ==
    /\ dPc' = "returned"
    /\ dOut' = [bytes |-> bytes, reader |-> reader, err |-> e, at |-> stage]
    /\ bodyOpen' = IF dFetcher \in ClosingBody THEN FALSE ELSE bodyOpen
    /\ gzipOpen' = IF dFetcher \in ClosingGzip THEN FALSE ELSE gzipOpen
    /\ dRetry' = (dFetcher = "attemptFetchContents" /\ retried(e))

\* if Content-Encoding is gzip: gzip.NewReader, which reads the header from
\* the body
decoderGzip ==
    /\ dPc = "gzip"
    /\ IF dFetcher \in Decoding /\ dEncoding = "gzip"
       THEN /\ dReads' = dReads + 1
            /\ IF ReadFails
               THEN /\ DecoderReturn(NoContent, FALSE, dFaultKind, "gzip")
                    /\ UNCHANGED dApplied
               ELSE IF ~dWire.gz
               THEN /\ DecoderReturn(NoContent, FALSE, << GzipHeaderError >>,
                                     "gzip")
                    /\ UNCHANGED dApplied
               ELSE /\ dPc' = "charset"
                    /\ gzipOpen' = TRUE
                    /\ dApplied' = dApplied \cup {"gzip"}
                    /\ UNCHANGED << bodyOpen, dOut, dRetry >>
       ELSE /\ dPc' = "charset"
            /\ UNCHANGED << dReads, dApplied, bodyOpen, gzipOpen, dOut,
                            dRetry >>
    /\ UNCHANGED << dFetcher, dEncoding, dType, dWire, dFaultAt, dFaultKind,
                    engineVars, limiterVars, probeVars, chaserVars,
                    streamVars, raceVars, moreVars >>

\* if Content-Type is textual: charset.NewReader, which reads a preview of
\* the content and fails when the read fails or there is nothing to read
decoderCharset ==
    /\ dPc = "charset"
    /\ IF dFetcher \in Decoding /\ isTextual(dType)
       THEN /\ dReads' = dReads + 1
            /\ IF ReadFails
               THEN /\ DecoderReturn(NoContent, FALSE, dFaultKind, "charset")
                    /\ UNCHANGED dApplied
               ELSE IF dWire.empty
               THEN /\ DecoderReturn(NoContent, FALSE, << "EOF" >>, "charset")
                    /\ UNCHANGED dApplied
               ELSE /\ dPc' = "read"
                    /\ dApplied' = dApplied \cup {"charset"}
                    /\ UNCHANGED << bodyOpen, gzipOpen, dOut, dRetry >>
       ELSE /\ dPc' = "read"
            /\ UNCHANGED << dReads, dApplied, bodyOpen, gzipOpen, dOut,
                            dRetry >>
    /\ UNCHANGED << dFetcher, dEncoding, dType, dWire, dFaultAt, dFaultKind,
                    engineVars, limiterVars, probeVars, chaserVars,
                    streamVars, raceVars, moreVars >>

\* io.ReadAll of the reader set up and the return of the bytes;
\* fetchContentsAsReader returns the reader instead
decoderRead ==
    /\ dPc = "read"
    /\ IF dFetcher = "fetchContentsAsReader"
       THEN /\ DecoderReturn(NoContent, TRUE, Nil, "")
            /\ UNCHANGED dReads
       ELSE /\ dReads' = dReads + 1
            /\ IF ReadFails
               THEN DecoderReturn(NoContent, FALSE, dFaultKind, "read")
               ELSE DecoderReturn(Decoded, FALSE, Nil, "")
    /\ UNCHANGED << dFetcher, dEncoding, dType, dWire, dFaultAt, dFaultKind,
                    dApplied, engineVars, limiterVars, probeVars, chaserVars,
                    streamVars, raceVars, moreVars >>

DecoderNext ==
    \/ decoderGzip
    \/ decoderCharset
    \/ decoderRead

InitDecoder ==
    /\ EngineIdle /\ LimiterIdle /\ ProbeIdle /\ ChaserIdle /\ StreamIdle
    /\ DecoderInit /\ RaceIdle /\ OnceIdle /\ FsIdle

SpecDecoder == InitDecoder /\ [][DecoderNext]_vars

(* ---------------- concurrent calls on one RedirectedRequest ---------------- *)
\* the redirects a server answers one request with, at most
MaxRaceHops == 2

\* URLs are numbers: call k starts at FirstURL(k), a redirect leads to the
\* next number, a follow-on URL found in a page is FollowOnStep further
FirstURL(k) == 10 * k
FollowOnStep == 5
\* a url.URL of which one part was written by one call and the rest by
\* another
TornURL == 0 - 1

\* both calls have been made, each from its own goroutine
RaceInit ==
    /\ rcPc = [k \in Calls |-> "call"]
    /\ rcHops \in [Calls -> 0..MaxRaceHops]
    /\ rcTarget = [k \in Calls |-> FirstURL(k)]
    /\ rcRet = [k \in Calls |-> 0]
    /\ rcFollow \in [Calls -> BOOLEAN]
    /\ rcLimited \in BOOLEAN
    /\ sharedFinalURL = 0
    /\ rcWrites = {}
    /\ rcBucket = 0

\* a write of call k to a memory location; overlap: another call is in
\* progress at that moment
Write(location, k) ==
    [loc |-> location, call |-> k,
     overlap |-> \E j \in Calls \ {k} : rcPc[j] # "done"]

\* GetResponse: the limiter, when there is one, takes a token from the
\* bucket under its mutex; then the request is sent
raceLimiter(k) ==
    /\ rcPc[k] = "call"
    /\ rcPc' = [rcPc EXCEPT ![k] = "transport"]
    /\ IF rcLimited
       THEN /\ rcBucket' = rcBucket - 1
            /\ rcWrites' = rcWrites \cup {Write("limiter", k)}
       ELSE UNCHANGED << rcBucket, rcWrites >>
    /\ UNCHANGED << rcHops, rcTarget, rcRet, rcFollow, rcLimited,
                    sharedFinalURL, engineVars, limiterVars, probeVars,
                    chaserVars, streamVars, decoderVars, moreVars >>

\* the server answers with a redirect: client.Do calls CheckRedirect in the
\* goroutine of the call, which assigns rr.finalURL = *req.URL.  The
\* assignment copies a struct of several words without synchronization:
\* when another call can be assigning at the same time the field may end
\* up with words of both.
raceRedirect(k) ==
    /\ rcPc[k] = "transport"
    /\ rcHops[k] > 0
    /\ rcHops' = [rcHops EXCEPT ![k] = @ - 1]
    /\ rcTarget' = [rcTarget EXCEPT ![k] = @ + 1]
    /\ sharedFinalURL' \in
          {rcTarget[k] + 1} \cup
          {TornURL : j \in {c \in Calls \ {k} :
                               rcPc[c] = "transport" /\ rcHops[c] > 0}}
    /\ rcWrites' = rcWrites \cup {Write("rr.finalURL", k)}
    /\ UNCHANGED << rcPc, rcRet, rcFollow, rcLimited, rcBucket, engineVars,
                    limiterVars, probeVars, chaserVars, streamVars,
                    decoderVars, moreVars >>

\* the server answers with the page: the body is read; a follow-on URL in
\* it is fetched by a second GetResponse, else the page's URL is returned
raceAnswer(k) ==
    /\ rcPc[k] = "transport"
    /\ rcHops[k] = 0
    /\ IF rcFollow[k]
       THEN /\ rcPc' = [rcPc EXCEPT ![k] = "call"]
            /\ rcFollow' = [rcFollow EXCEPT ![k] = FALSE]
            /\ rcTarget' = [rcTarget EXCEPT ![k] = @ + FollowOnStep]
            /\ \E hops \in 0..MaxRaceHops :
                 rcHops' = [rcHops EXCEPT ![k] = hops]
            /\ UNCHANGED rcRet
       ELSE /\ rcPc' = [rcPc EXCEPT ![k] = "done"]
            /\ rcRet' = [rcRet EXCEPT ![k] = rcTarget[k]]
            /\ UNCHANGED << rcFollow, rcTarget, rcHops >>
    /\ UNCHANGED << rcLimited, sharedFinalURL, rcWrites, rcBucket,
                    engineVars, limiterVars, probeVars, chaserVars,
                    streamVars, decoderVars, moreVars >>

RaceNext ==
    \E k \in Calls :
        \/ raceLimiter(k)
        \/ raceRedirect(k)
        \/ raceAnswer(k)

InitRace ==
    /\ EngineIdle /\ LimiterIdle /\ ProbeIdle /\ ChaserIdle /\ StreamIdle
    /\ DecoderIdle /\ RaceInit /\ OnceIdle /\ FsIdle

SpecRace == InitRace /\ [][RaceNext]_vars

(* ---------------- the singleton constructors ---------------- *)
\* the variables of the other models, which a constructor call leaves alone
onceOthers ==
    << engineVars, limiterVars, probeVars, chaserVars, streamVars,
       decoderVars, raceVars, fsVars >>

\* A caller invokes NewSECRequest or NewSECRequestInstallerRequest; a caller
\* that has returned may call again.
onceCall(k) ==
    /\ snPc[k] \in {"idle", "returned"}
    /\ \E c \in Constructors : snCtor' = [snCtor EXCEPT ![k] = c]
    /\ snPc' = [snPc EXCEPT ![k] = "Do"]
    /\ UNCHANGED << onceDone, onceM, instance, built, snNew, snRet,
                    snReturned, onceOthers >>

\* once.Do: if o.done.Load() == 0 { o.doSlow(f) }
onceDo(k) ==
    /\ snPc[k] = "Do"
    /\ snPc' = [snPc EXCEPT ![k] =
                  IF onceDone[snCtor[k]] = 0 THEN "Lock" ELSE "return"]
    /\ UNCHANGED << onceDone, onceM, instance, built, snCtor, snNew, snRet,
                    snReturned, onceOthers >>

\* mutant: the flag is not read again under the mutex
mustRunUnchecked(c) == TRUE

\* doSlow, under the mutex: if o.done.Load() == 0 { defer o.done.Store(1); f() }
mustRun(c) == onceDone[c] = 0

\* doSlow: o.m.Lock(), then the second test of the flag
onceLock(k) ==
    LET c == snCtor[k] IN
    /\ snPc[k] = "Lock"
    /\ onceM[c] = 0
    /\ onceM' = [onceM EXCEPT ![c] = k]
    /\ snPc' = [snPc EXCEPT ![k] = IF mustRun(c) THEN "f" ELSE "Unlock"]
    /\ UNCHANGED << onceDone, instance, built, snCtor, snNew, snRet,
                    snReturned, onceOthers >>

\* f: NewRetryRequest(...) builds an engine with a limiter of its own
onceConstruct(k) ==
    LET c == snCtor[k] IN
    /\ snPc[k] = "f"
    /\ built' = [built EXCEPT ![c] = built[c] + 1]
    /\ snNew' = [snNew EXCEPT ![k] = built[c] + 1]
    /\ snPc' = [snPc EXCEPT ![k] = "assign"]
    /\ UNCHANGED << onceDone, onceM, instance, snCtor, snRet, snReturned,
                    onceOthers >>

\* f: instance = &SECRequest{...}, then the deferred o.done.Store(1)
onceAssign(k) ==
    LET c == snCtor[k] IN
    /\ snPc[k] = "assign"
    /\ instance' = [instance EXCEPT ![c] = snNew[k]]
    /\ snNew' = [snNew EXCEPT ![k] = 0]
    /\ onceDone' = [onceDone EXCEPT ![c] = 1]
    /\ snPc' = [snPc EXCEPT ![k] = "Unlock"]
    /\ UNCHANGED << onceM, built, snCtor, snRet, snReturned, onceOthers >>

\* doSlow: the deferred o.m.Unlock()
onceUnlock(k) ==
    LET c == snCtor[k] IN
    /\ snPc[k] = "Unlock"
    /\ onceM' = [onceM EXCEPT ![c] = 0]
    /\ snPc' = [snPc EXCEPT ![k] = "return"]
    /\ UNCHANGED << onceDone, instance, built, snCtor, snNew, snRet,
                    snReturned, onceOthers >>

\* return instance
onceReturn(k) ==
    LET c == snCtor[k] IN
    /\ snPc[k] = "return"
    /\ snRet' = [snRet EXCEPT ![k] = instance[c]]
    /\ snReturned' = [snReturned EXCEPT ![c] = @ \cup {instance[c]}]
    /\ snPc' = [snPc EXCEPT ![k] = "returned"]
    /\ UNCHANGED << onceDone, onceM, instance, built, snCtor, snNew,
                    onceOthers >>

OnceNext ==
    \E k \in Callers :
        \/ onceCall(k)
        \/ onceDo(k)
        \/ onceLock(k)
        \/ onceConstruct(k)
        \/ onceAssign(k)
        \/ onceUnlock(k)
        \/ onceReturn(k)

InitOnce ==
    /\ EngineIdle /\ LimiterIdle /\ ProbeIdle /\ ChaserIdle /\ StreamIdle
    /\ DecoderIdle /\ RaceIdle /\ OnceIdle /\ FsIdle

SpecOnce == InitOnce /\ [][OnceNext]_vars

(* ---------------- the virtual filesystem ---------------- *)
MaxFileSize == 10485760
MaxPathLength == 256

\* len(content) of the contents written, and the paths used: a path is a
\* string of one of these lengths that ends in "/" or does not
ContentSizes == {1, MaxFileSize, MaxFileSize + 1}
PathLengths == {MaxPathLength, MaxPathLength + 1}
Paths == [len : PathLengths, slash : BOOLEAN]

fsOthers ==
    << engineVars, limiterVars, probeVars, chaserVars, streamVars,
       decoderVars, raceVars, onceVars >>

\* SELECT ... WHERE path = ?
Exists(path) == \E row \in fsStore : row.path = path

\* INSERT INTO virtual_filesystem: path is UNIQUE
Insert(path, size) == fsStore \cup {[path |-> path, size |-> size]}

\* UPDATE virtual_filesystem SET content = ? WHERE path = ?
Update(path, size) ==
    {IF row.path = path THEN [row EXCEPT !.size = size] ELSE row :
        row \in fsStore}

\* what the operation is recorded as
Operation(op, path, size, failed) ==
    [op |-> op, pathLen |-> path.len, size |-> size, err |-> failed,
     changed |-> fsStore' # fsStore]

\* CreateFile: len(content) > MaxFileSize, len(path) > MaxPathLength
createFileLimits(path, size) ==
    size > MaxFileSize \/ path.len > MaxPathLength

\* CreateFile, up to its return; dbFails: db.Exec returns an error of its own
CreateFileResult(path, size, dbFails) ==
    IF createFileLimits(path, size) \/ Exists(path) \/ dbFails
    THEN [store |-> fsStore, failed |-> TRUE]
    ELSE [store |-> Insert(path, size), failed |-> FALSE]

\* UpdateFile: the UPDATE, then rows == 0 gives "file not found"
UpdateFileResult(path, size, dbFails) ==
    IF dbFails \/ ~Exists(path)
    THEN [store |-> fsStore, failed |-> TRUE]
    ELSE [store |-> Update(path, size), failed |-> FALSE]

CreateFile ==
    \E path \in Paths, size \in ContentSizes, dbFails \in BOOLEAN :
        LET res == CreateFileResult(path, size, dbFails) IN
        /\ fsStore' = res.store
        /\ fsLast' = Operation("CreateFile", path, size, res.failed)
        /\ UNCHANGED fsOthers

UpdateFile ==
    \E path \in Paths, size \in ContentSizes, dbFails \in BOOLEAN :
        LET res == UpdateFileResult(path, size, dbFails) IN
        /\ fsStore' = res.store
        /\ fsLast' = Operation("UpdateFile", path, size, res.failed)
        /\ UNCHANGED fsOthers

\* CreateDirectory: "/" is appended to a path that does not end in it, and
\* a row without content is inserted
CreateDirectory ==
    \E path \in Paths, dbFails \in BOOLEAN :
        LET dir == IF path.slash THEN path
                   ELSE [len |-> path.len + 1, slash |-> TRUE]
            failed == Exists(dir) \/ dbFails
        IN
        /\ fsStore' = IF failed THEN fsStore ELSE Insert(dir, 0)
        /\ fsLast' = Operation("CreateDirectory", dir, 0, failed)
        /\ UNCHANGED fsOthers

\* HandleOperation("write_file"): the operation is logged, then
\* handleWriteFile updates the file if ReadFile finds it and creates it
\* otherwise
handleWriteFile ==
    \E path \in Paths, size \in ContentSizes, logFails \in BOOLEAN,
       readFails \in BOOLEAN, dbFails \in BOOLEAN :
        LET res == IF logFails THEN [store |-> fsStore, failed |-> TRUE]
                   ELSE IF Exists(path) /\ ~readFails
                   THEN UpdateFileResult(path, size, dbFails)
                   ELSE CreateFileResult(path, size, dbFails)
        IN
        /\ fsStore' = res.store
        /\ fsLast' = Operation("write_file", path, size, res.failed)
        /\ UNCHANGED fsOthers

\* DeleteFile
DeleteFile ==
    \E path \in Paths, dbFails \in BOOLEAN :
        LET failed == dbFails \/ ~Exists(path) IN
        /\ fsStore' = IF failed THEN fsStore
                      ELSE {row \in fsStore : row.path # path}
        /\ fsLast' = Operation("DeleteFile", path, 0, failed)
        /\ UNCHANGED fsOthers

FsNext ==
    \/ CreateFile
    \/ UpdateFile
    \/ CreateDirectory
    \/ handleWriteFile
    \/ DeleteFile

InitFs ==
    /\ EngineIdle /\ LimiterIdle /\ ProbeIdle /\ ChaserIdle /\ StreamIdle
    /\ DecoderIdle /\ RaceIdle /\ OnceIdle /\ FsIdle

SpecFs == InitFs /\ [][FsNext]_vars

(* ======================= properties ======================= *)
IsCanceledError(e) == Is(e, Canceled) \/ Is(e, DeadlineExceeded)
Is2xx(status) == status >= 200 /\ status < 300
IsMaxRetriesError(e) == e # Nil /\ Head(e) = MaxRetriesReached

\* C1: in the attempt loop of GetResponse every failed attempt that is not
\* the last one is followed by exactly one backoff wait and then by the next
\* attempt, and a 2xx answer to attempt k+1 ends the call at once: it
\* returns that response with a nil error after k+1 attempts and k waits.
\* The loop never gives up before maxRetries attempts.
C1_RetryThenSuccess ==
    /\ pc = "loop" => attempts = i /\ waits = i /\ i < r.maxRetries
    /\ pc = "classify" => attempts = i + 1 /\ waits = i
    /\ pc = "backoff" =>
          attempts = i + 1 /\ waits = i + 1 /\ ~(err = Nil /\ Is2xx(resp))
    /\ (pc = "returned" /\ recAttempts = 0 /\ attempts > 0
        /\ err = Nil /\ Is2xx(resp)) =>
          /\ ret = [resp |-> resp, cancel |-> TRUE, err |-> Nil]
          /\ attempts = i + 1
          /\ waits = i
    /\ (pc = "returned" /\ IsMaxRetriesError(ret.err)) =>
          attempts = r.maxRetries

\* two failures, then a 200: three attempts and two waits
C1_Witness ==
    /\ pc = "returned"
    /\ entry = "GetResponse"
    /\ ret.err = Nil
    /\ ret.resp = 200
    /\ recAttempts = 0
    /\ attempts = 3
    /\ waits = 2

\* C2: with noRetry404 set, a 404 answer to the first attempt of GetResponse
\* ends the call after that one attempt, with no backoff wait, and the error
\* returned (also through the content fetcher) satisfies Is404NoRetryError.
C2_NotFoundNoRetry ==
    (r.noRetry404 /\ i = 0 /\ attempts > 0 /\ recAttempts = 0
     /\ err = Nil /\ resp = 404 /\ pc # "classify") =>
        /\ pc \in {"returned", "done"}
        /\ attempts = 1
        /\ waits = 0
        /\ Is404NoRetryError(ret.err)
        /\ ret.resp = 404
        /\ pc = "done" => Is404NoRetryError(out.err)

C2_Witness ==
    /\ pc = "returned"
    /\ r.noRetry404
    /\ attempts = 1
    /\ waits = 0
    /\ resp = 404
    /\ Is404NoRetryError(ret.err)

\* C3 (as claimed): at most one response body is open at any time, no body
\* is open between attempts or during a wait, and no body is open when the
\* call has returned an error.
C3_BodiesClosed ==
    /\ open <= 1
    /\ pc \in {"limiter", "limiterWait", "loop", "backoff", "recovery",
               "recoverySleeping", "recoveryRequest", "fetchBackoff"} =>
          open = 0
    /\ (pc = "returned" /\ ret.err # Nil) => open = 0
    /\ (pc = "done" /\ out.err # Nil) => open = 0

\* C4 (as claimed): the requests issued by attempt loops in one fetch call
\* never exceed maxRetries.
C4_AttemptsWithinMaxRetries == totalAttempts <= r.maxRetries

\* C4 (amended): each GetResponse call issues at most maxRetries requests
\* from its attempt loop; a content fetcher makes at most maxRetries
\* GetResponse calls, hence at most maxRetries * maxRetries such requests.
C4_AttemptsPerCall ==
    /\ attempts <= r.maxRetries
    /\ entry = "GetResponse" => totalAttempts = attempts
    /\ attempt <= r.maxRetries
    /\ (entry = "fetchContentsAsBytes" /\ pc \notin {"entry", "done"}) =>
          attempt < r.maxRetries
    /\ totalAttempts <= r.maxRetries * r.maxRetries

\* a content fetch that has issued maxRetries * maxRetries requests
C4_Witness ==
    /\ entry = "fetchContentsAsBytes"
    /\ r.maxRetries >= 2
    /\ totalAttempts = r.maxRetries * r.maxRetries

\* C5: an attempt of GetResponse that failed with a context-canceled or
\* deadline-exceeded error ends the call in the very next step of the call:
\* in the attempt loop context.Canceled is returned, in the recovery loop the
\* error itself, and in both no request, no backoff wait and no recovery
\* iteration follows; the content fetcher built on it ends as well.
C5_CanceledAttemptStep ==
    /\ (pc = "classify" /\ IsCanceledError(err) /\ pc' # pc) =>
          /\ pc' = "returned"
          /\ ret' = [resp |-> 0, cancel |-> FALSE, err |-> << Canceled >>]
    /\ (pc = "recoveryClassify" /\ IsCanceledError(err) /\ pc' # pc) =>
          /\ pc' = "returned"
          /\ ret' = [resp |-> 0, cancel |-> FALSE, err |-> err]
    /\ (pc \in {"classify", "recoveryClassify"} /\ IsCanceledError(err)) =>
          /\ attempts' = attempts
          /\ recAttempts' = recAttempts
          /\ waits' = waits
          /\ slept' = slept
          /\ sent' = sent
    /\ (pc = "returned" /\ IsCanceledError(ret.err) /\ pc' # pc) =>
          /\ pc' = "done"
          /\ IsCanceledError(out'.err)
          /\ totalAttempts' = totalAttempts
          /\ fetchWaits' = fetchWaits

C5_CanceledAttempt == [][C5_CanceledAttemptStep]_vars

\* a per-attempt timeout under a live caller context, with attempts left
C5_Witness ==
    /\ pc = "returned"
    /\ ctx = "live"
    /\ Is(err, DeadlineExceeded)
    /\ ret.err = << Canceled >>
    /\ attempts = 1
    /\ r.maxRetries = 3
    /\ waits = 0

\* C6 (as claimed): the max-retries error returned after maxRetries failed
\* attempts wraps a non-nil cause, which is the StatusCodeError of the last
\* response when the last attempt was answered with a non-2xx status.
C6_MaxRetriesWrapsCause ==
    (pc = "returned" /\ IsMaxRetriesError(ret.err) /\ attempts > 0) =>
        /\ Unwrap(ret.err) # Nil
        /\ (err = Nil /\ resp # 0) => Unwrap(ret.err) = StatusCodeError(resp)

\* C7 (as claimed): with noRetry422 set, a 422 answer in the attempt loop
\* ends the call with an error; no backoff wait and no attempt follow.
C7_UnprocessableNoRetry ==
    (r.noRetry422 /\ attempts > 0 /\ recAttempts = 0
     /\ err = Nil /\ resp = 422 /\ pc # "classify") =>
        /\ pc \in {"returned", "done"}
        /\ ret.err # Nil

\* C8: the timer of a backoff wait started after attempt i lasts
\* backoffFactor * 2^i, except that after a 429 response with a long-429
\* backoff strictly greater than that value it lasts the long-429 backoff;
\* after a transport error (no response), after any other status, and in
\* the waits of fetchContentsAsBytes, the long backoff is never used.
C8_BackoffDuration ==
    /\ pc = "backoff" =>
          timer = IF resp = 429 /\ r.longBackOffOn429 > r.backoffFactor * Pow2(i)
                  THEN r.longBackOffOn429
                  ELSE r.backoffFactor * Pow2(i)
    /\ (pc = "backoff" /\ resp # 429) => timer = r.backoffFactor * Pow2(i)
    /\ pc = "fetchBackoff" => timer = r.backoffFactor * Pow2(attempt)

\* a 429 at index 1 with long backoff 15 > 5 * 2: the wait lasts 15
C8_Witness ==
    /\ pc = "backoff"
    /\ resp = 429
    /\ i = 1
    /\ r.longBackOffOn429 = 15
    /\ timer = 15

\* C9: when the caller's context ends during a backoff wait of GetResponse,
\* the wait can end immediately by returning ctx.Err() with no further
\* attempt; however the wait ends, the call returns a canceled error with a
\* nil response, and no request reaches the network after the cancellation.
C9_BackoffReturnsCanceled ==
    backoffWake /\ pc' = "returned" /\ attempts' = attempts
    /\ ret' = [resp |-> 0, cancel |-> FALSE, err |-> << ctx >>]

C9_CancelDuringBackoff ==
    /\ (pc = "backoff" /\ ctx # "live" /\ ~timerFired) =>
          ENABLED C9_BackoffReturnsCanceled
    /\ canceledAt = "backoff" =>
          /\ pc \in {"backoff", "returned", "done"}
          /\ sent = sentAtCancel
          /\ pc = "returned" =>
                ret = [resp |-> 0, cancel |-> FALSE, err |-> << ctx >>]
          /\ pc = "done" => ~out.bytes /\ IsCanceledError(out.err)

C9_Witness ==
    /\ canceledAt = "backoff"
    /\ pc = "returned"
    /\ ret.err = << Canceled >>
    /\ attempts = 1
    /\ r.maxRetries = 3

\* C10: with rate limiting configured, when the caller's context ends while
\* GetResponse waits for a limiter token, the wait can end immediately by
\* returning an error before any attempt; however it ends, the call returns
\* a nil response with an error and no request reaches the network.
C10_LimiterReturnsError ==
    limiterWake /\ pc' = "returned" /\ attempts' = 0
    /\ ret'.resp = 0 /\ ~ret'.cancel /\ ret'.err # Nil

C10_CancelDuringLimiterWait ==
    /\ pc = "limiterWait" => r.isRateLimited /\ attempts = 0
    /\ (pc = "limiterWait" /\ ctx # "live" /\ ~timerFired) =>
          ENABLED C10_LimiterReturnsError
    /\ canceledAt = "limiterWait" =>
          /\ pc \in {"limiterWait", "returned", "done"}
          /\ attempts = 0
          /\ sent = sentAtCancel
          /\ pc = "returned" => ret.resp = 0 /\ ~ret.cancel /\ ret.err # Nil
          /\ pc = "done" => ~out.bytes /\ out.err # Nil

C10_Witness ==
    /\ canceledAt = "limiterWait"
    /\ pc = "returned"
    /\ r.isRateLimited
    /\ r.maxRetries = 3
    /\ ret.err = << Canceled >>
    /\ attempts = 0
    /\ sent = 0

InRecovery ==
    pc \in {"recovery", "recoverySleeping", "recoveryRequest",
            "recoveryClassify"}

\* C12 (as claimed): GetResponse is in the recovery loop only after a failed
\* attempt that was the last scheduled one (index maxRetries-1), with a
\* recovery policy configured and an error that looks like a network issue;
\* and a failed attempt for which these three conditions hold always enters
\* the recovery loop, so the call never ends in the max-retries error with
\* that attempt's error as the last one.
C12_RecoveryEntry ==
    /\ InRecovery =>
          /\ r.resolveNetworkUnavailable
          /\ i = r.maxRetries - 1
          /\ attempts = r.maxRetries
    /\ (pc = "recovery" /\ recAttempts = 0) =>
          IsPossibleNetworkOrDNSIssueErr(err)
    /\ (pc = "returned" /\ recAttempts = 0 /\ r.resolveNetworkUnavailable
        /\ attempts > 0 /\ attempts = r.maxRetries
        /\ IsPossibleNetworkOrDNSIssueErr(err)) =>
          ~IsMaxRetriesError(ret.err)

\* how a call that entered the recovery loop has returned
RecoveryReturned ==
    /\ pc = "returned"
    /\ recAttempts > 0 \/ ret.err = << ErrNetworkUnavailableAfterMaxWait >>

ReturnedSuccess == ret.err = Nil /\ Is2xx(ret.resp) /\ ret.cancel
ReturnedBudgetExhausted ==
    /\ ret = [resp |-> 0, cancel |-> FALSE,
              err |-> << ErrNetworkUnavailableAfterMaxWait >>]
    /\ elapsed >= r.networkUnavailableMaxWait
ReturnedOtherError ==
    /\ err # Nil
    /\ ~IsPossibleNetworkOrDNSIssueErr(err)
    /\ ret = [resp |-> 0, cancel |-> FALSE, err |-> err]
ReturnedNoRetryStatus ==
    /\ err = Nil
    /\ \/ resp = 404 /\ r.noRetry404
       \/ resp = 422 /\ r.noRetry422
    /\ ret = [resp |-> resp, cancel |-> TRUE, err |-> StatusCodeError(resp)]

\* the part of C15 about the sleeps: every sleep of the recovery loop lasts
\* min(remaining budget, recovery interval) and is positive, the sleeps sum
\* up to at most networkUnavailableMaxWait, and the loop makes at most
\* networkUnavailableMaxWait (in units of time) iterations
RecoverySleepsWithinBudget ==
    /\ pc = "recoverySleeping" =>
          /\ timer = Min(r.networkUnavailableMaxWait - elapsed,
                         r.networkUnavailableBackOff)
          /\ timer > 0
    /\ slept <= elapsed
    /\ slept <= r.networkUnavailableMaxWait
    /\ recAttempts <= r.networkUnavailableMaxWait

\* C15 (as claimed): the sleeps are as above and the recovery loop ends in
\* one of three ways: a 2xx response, a transport error that does not look
\* like a network issue, or ErrNetworkUnavailableAfterMaxWait.
C15_RecoveryThreeExits ==
    /\ RecoverySleepsWithinBudget
    /\ RecoveryReturned =>
          ReturnedSuccess \/ ReturnedOtherError \/ ReturnedBudgetExhausted

\* C15 (amended): the sleeps are as above and the recovery loop ends in one
\* of four ways: the three above, or, with noRetry404 (noRetry422) set, a
\* 404 (422) response returned together with a StatusCodeError.
C15_RecoveryExits ==
    /\ RecoverySleepsWithinBudget
    /\ RecoveryReturned =>
          \/ ReturnedSuccess
          \/ ReturnedOtherError
          \/ ReturnedBudgetExhausted
          \/ ReturnedNoRetryStatus

\* the budget was used up by two sleeps (2, then the remaining 1)
C15_Witness ==
    /\ pc = "returned"
    /\ ReturnedBudgetExhausted
    /\ recAttempts = 2
    /\ slept = r.networkUnavailableMaxWait

\* C16 (as claimed): when the caller's context ends while GetResponse sleeps
\* in the recovery loop, the sleep ends there: the call returns without
\* completing the sleep and without going on to another request.
C16_CancelDuringRecoverySleep ==
    canceledAt = "recoverySleeping" =>
        pc \in {"recoverySleeping", "returned", "done"}

RECURSIVE SumFrom(_, _, _)
SumFrom(log, from, to) ==
    IF from > to THEN 0 ELSE log[from] + SumFrom(log, from + 1, to)

\* calls admitted in the window of one second that starts at time t
AdmittedInWindow(t) ==
    SumFrom(admitLog, t + 1, Min(t + SECAttemptsPerSecond, Len(admitLog)))

\* C11 (as claimed): with limit 10 per second and burst 10, no window of
\* one second (10 token intervals) contains more than 10 + 1 admitted calls.
C11_RollingWindow ==
    \A t \in 0..(Len(admitLog) - 1) :
        AdmittedInWindow(t) <= SECAttemptsPerSecond + 1

SomeProbe(what) == \E k \in 1..ProbeCount : probeOutcome[k] = what
EveryProbe(what) == \A k \in 1..ProbeCount : probeOutcome[k] = what

\* C13 (as claimed): for an error that looks like a network issue,
\* IsNetworkUnavailable returns true only if all probes failed, and false
\* if a probe succeeded; for any other error it returns false and no probe
\* is started.
C13_UnavailableIffAllProbesFail ==
    probePc = "returned" =>
        IF IsPossibleNetworkOrDNSIssueErr(probeErr)
        THEN /\ unavailable => EveryProbe("failed")
             /\ checkResult = "true" => ~unavailable
        ELSE /\ ~unavailable
             /\ EveryProbe("idle")

\* C14: the probes run concurrently (none waits for another); the check
\* ends with the 'a probe succeeded' result only on a success report and
\* does so without waiting for the probes still running: whenever a success
\* has been reported the caller is not blocked; and it ends with the 'all
\* failed' result only when every probe has reported a failure.
C14_FirstSuccessOrAllFailures ==
    /\ probePc = "receive" =>
          \A k \in 1..ProbeCount :
              probeOutcome[k] = "running" => ENABLED probeReports(k)
    /\ checkResult = "true" => SomeProbe("ok")
    /\ (probePc = "receive" /\ SomeProbe("ok")) =>
          /\ responses # << >>
          /\ ENABLED probeReceive
    /\ checkResult = "false" =>
          /\ EveryProbe("failed")
          /\ received = ProbeCount
    /\ (probePc = "receive" /\ EveryProbe("failed")) => responses # << >>
    /\ Len(responses) + received <= ProbeCount

\* the check has ended on the first report, a success, with three probes
\* still in flight
C14_Witness ==
    /\ probePc = "returned"
    /\ checkResult = "true"
    /\ received = 1
    /\ Cardinality({k \in 1..ProbeCount : probeOutcome[k] = "running"}) = 3

FirstRedirect == extractJavaScriptRedirect(site["a"])

\* C17: one chaser call makes at most two fetches; the client-side redirect
\* test is applied to the first body only; a second fetch is made exactly
\* for a first body that matches a pattern, goes to the extracted target,
\* and its body and URL are what the call returns, whatever that body
\* contains.
C17_AtMostOneFollowOn ==
    /\ fetches <= 2
    /\ checkForJavaRedirect => fetches <= 1
    /\ fetches = 2 =>
          /\ FirstRedirect.found
          /\ urlStr = FirstRedirect.target
          /\ ~checkForJavaRedirect
    /\ (pc = "done" /\ chRet.err = Nil) =>
          IF FirstRedirect.found
          THEN /\ fetches = 2
               /\ chRet.bytes = site[FirstRedirect.target]
               /\ chRet.url.page = FirstRedirect.target
          ELSE /\ fetches = 1
               /\ chRet.bytes = site["a"]
               /\ chRet.url.page = "a"
    /\ (pc = "done" /\ fetches = 1 /\ FirstRedirect.found) =>
          chRet.err # Nil

\* two pages that redirect to each other: the call ends after the second
\* fetch and returns the second page, redirect tag included
C17_Witness ==
    /\ pc = "done"
    /\ site["a"].meta = "b"
    /\ site["b"].meta = "a"
    /\ fetches = 2
    /\ chRet.err = Nil
    /\ chRet.url.page = "b"
    /\ chRet.bytes = site["b"]

\* C18 (as claimed): whatever the options, one request follows at most 10
\* redirects.
C18_RedirectCap ==
    pc \in {"transport", "classify"} => via - 1 <= RedirectCap

\* C19 (as claimed): when the hook has stopped the redirects, the redirect
\* response is the result of the fetch: GetResponse returns it with a nil
\* error, there is no backoff wait and no further attempt, and the chaser
\* returns a nil error.
C19_LastResponseAccepted ==
    (usedLast /\ pc # "classify") =>
        /\ pc \in {"returned", "done", "limiter"}
        /\ ret.err = Nil \/ pc = "limiter"
        /\ pc = "done" => chRet.err = Nil

StartThenEnd == StartLine \o << NL >> \o EndLine \o << NL >>

\* the stream start line, end line has arrived as two 206 responses, the
\* first ending in the middle of a line, and the second has been drained
\* with the consumer receiving and the context live
TwoResponsesSplitMidLine ==
    /\ stream = StartThenEnd
    /\ Len(stResponses) >= 2
    /\ stResponses[1].status = StatusPartialContent
    /\ stResponses[2].status = StatusPartialContent
    /\ stResponses[1].from = 0
    /\ stResponses[1].to \in 1..(Len(stream) - 1)
    /\ stream[stResponses[1].to] # NL
    /\ stResponses[2].from = stResponses[1].to
    /\ stResponses[2].to = Len(stream)
    /\ Len(stResponses) = 2 =>
          /\ stPc \in {"poll", "request", "closed"}
          /\ stPc = "closed" => stExit = "end"
          /\ consumerActive
          /\ stCtx = "live"

\* C20 (as claimed): when the two lines arrive as two 206 responses split
\* in the middle of a line, the consumer receives exactly the start line
\* and the end line, StartMessage holds the parsed start line, and the run
\* ends after the end line with two requests issued.
C20_SplitMidLine ==
    TwoResponsesSplitMidLine =>
        /\ delivered = << StartLine, EndLine >>
        /\ StartMessage = StartLine
        /\ EndMessage = EndLine
        /\ stPc = "closed"
        /\ stRequests = 2

\* the goroutine of the stream fetcher has returned: nothing is sent, no
\* request is issued and the channel is not closed again
StreamDone ==
    stPc = "closed" =>
        /\ stPc' = "closed"
        /\ UNCHANGED << delivered, stRequests, closes, stExit >>

\* C21: a line of a 206 body that begins with the end prefix and parses
\* with type "end" is handed to the consumer, becomes EndMessage and ends
\* the run: the channel is closed in that step, and afterwards no line is
\* forwarded and no request is issued.
C21_EndStep ==
    /\ (/\ stPc = "send"
        /\ delivered' # delivered
        /\ HasPrefix(stLine, << "Ea", "Eb" >>)
        /\ UnmarshalOk(stLine)) =>
           /\ delivered' = Append(delivered, stLine)
           /\ EndMessage' = stLine
           /\ stPc' = "closed"
           /\ closes' = 1
           /\ stExit' = "end"
    /\ StreamDone

C21_EndSentinelTerminates == [][C21_EndStep]_vars

\* the run has ended on the end line while a later line of the same body
\* was still unread
C21_Witness ==
    /\ stExit = "end"
    /\ stPc = "closed"
    /\ EndMessage = EndLine
    /\ delivered[Len(delivered)] = EndLine
    /\ stBody = DataLine \o << NL >>
    /\ closes = 1

\* the last response received
LastResponse == stResponses[Len(stResponses)]

\* C22: a 200 reply is forwarded whole as one item and ends the run; a
\* reply that is neither 200 nor 206 ends the run with no item forwarded
\* from it; afterwards no request is issued and the channel is closed.
C22_ReplyStep ==
    /\ (stPc = "awaitResponse" /\ Len(stResponses') > Len(stResponses)) =>
          LET reply == stResponses'[Len(stResponses')]
          IN  /\ (reply.status = StatusOK /\ stPc' # "closed") =>
                    /\ stPc' = "send200"
                    /\ stLine' = SubSeq(stream, 1, reply.to)
                    /\ delivered' = delivered
              /\ reply.status \notin {StatusOK, StatusPartialContent} =>
                    /\ stPc' = "closed"
                    /\ stExit' = "status"
                    /\ closes' = 1
                    /\ delivered' = delivered
    /\ (stPc = "send200" /\ stPc' # "send200") =>
          /\ delivered' = Append(delivered, stLine)
          /\ stPc' = "closed"
          /\ stExit' = "whole"
          /\ closes' = 1
    /\ StreamDone

C22_WholeReplyOrOtherStatus == [][C22_ReplyStep]_vars

\* a 200 reply carrying several lines has been forwarded as one item after
\* a 206 poll, and the run has ended
C22_Witness ==
    /\ stExit = "whole"
    /\ stPc = "closed"
    /\ Len(stResponses) = 2
    /\ LastResponse.status = StatusOK
    /\ delivered[Len(delivered)] = stream
    /\ stRequests = 2
    /\ closes = 1

\* C23 (as claimed): the offset held by the fetcher never decreases from
\* one poll to the next, whatever 206 responses arrive and whatever content
\* length they report (a response that reports no length is left aside).
C23_OffsetStep ==
    contentLength >= 0 => lastBytePosition' >= lastBytePosition

C23_OffsetNeverDecreases == [][C23_OffsetStep]_vars

\* C24 (as claimed): once the context is canceled the goroutine of the
\* stream fetcher reaches its end and closes the channel, wherever it is and
\* whether or not the consumer still receives.
C24_CancelTerminates ==
    (stCtx = "canceled") ~> (stPc = "closed" /\ closes = 1)

\* the line carries a start or end prefix and is not valid JSON
MalformedSentinel(line) ==
    /\ HasPrefix(line, << "Sa", "Sb" >>) \/ HasPrefix(line, << "Ea", "Eb" >>)
    /\ line \notin {StartLine, EndLine, DataLine}

\* C25: a line with a sentinel prefix that does not parse is forwarded like
\* any line; the run neither ends nor fails on it, StartMessage and
\* EndMessage keep their values, and draining goes on with the next line.
C25_MalformedStep ==
    (stPc = "send" /\ delivered' # delivered /\ MalformedSentinel(stLine)) =>
        /\ delivered' = Append(delivered, stLine)
        /\ UNCHANGED << StartMessage, EndMessage, stBody, closes, stExit >>
        /\ stPc' = "scan"
        /\ stExit = ""

C25_MalformedSentinelForwarded == [][C25_MalformedStep]_vars

\* after a malformed start line and a malformed end line the next line, a
\* well-formed end line, has been forwarded too
C25_Witness ==
    /\ Len(delivered) >= 3
    /\ delivered[1] = BadStartLine
    /\ delivered[2] = BadEndLine
    /\ delivered[3] = EndLine
    /\ StartMessage = NoLine
    /\ EndMessage = EndLine

\* why the goroutine of the stream fetcher can return
StreamExits ==
    {"end", "whole", "status", "readError", "requestError", "scanError",
     "canceled"}

\* the items received are the items read, in the order read; the one item
\* read and not yet received is the one being sent
DeliveredInOrderRead ==
    \/ delivered = scanned
    \/ /\ stPc \in {"send", "send200"}
       /\ scanned = Append(delivered, stLine)

\* the channel is closed when, and only when, the goroutine has returned
ClosedOnReturn ==
    /\ closes <= 1
    /\ (stPc = "closed") = (closes = 1)
    /\ (stPc = "closed") = (stExit \in StreamExits)
    /\ stPc # "closed" => stExit = ""

\* C26: the channel delivers the items in the order they were read, across
\* polls; it is closed exactly once on every path on which the goroutine
\* returns, and nothing is sent after the close.
C26_OrderedAndClosedOnce ==
    /\ [](DeliveredInOrderRead /\ ClosedOnReturn)
    /\ [][StreamDone]_vars

\* lines of two polls have been received in order and the run has ended on
\* cancellation with the channel closed
C26_Witness ==
    /\ stPc = "closed"
    /\ stExit = "canceled"
    /\ closes = 1
    /\ Len(stResponses) = 2
    /\ delivered = << StartLine, DataLine >>
    /\ delivered = scanned

\* what the claims say of the headers
SaysGzip == dEncoding = "gzip"
SaysTextual ==
    dType[1] = "text/" \/ \E k \in 1..Len(dType) : dType[k] \in {"json", "xml"}

\* the body decoded as the headers select
DecodedAsHeadersSelect ==
    LET plain == IF SaysGzip THEN Gunzip(dWire) ELSE dWire
    IN  IF SaysTextual THEN Normalize(plain, dType) ELSE plain

FetchReturned(f) == dFetcher = f /\ dPc = "returned"

\* gzip is applied exactly when Content-Encoding is gzip, charset
\* normalization exactly when Content-Type is textual, and the bytes
\* returned are the body so decoded
DecoderSelection ==
    /\ dOut.at = "gzip" => SaysGzip /\ dApplied = {}
    /\ dOut.at # "gzip" => ("gzip" \in dApplied) = SaysGzip
    /\ dOut.at = "charset" => SaysTextual /\ "charset" \notin dApplied
    /\ dOut.at \notin {"gzip", "charset"} =>
          ("charset" \in dApplied) = SaysTextual
    /\ dOut.err = Nil => dOut.bytes = DecodedAsHeadersSelect
    /\ dOut.err # Nil => dOut.bytes = NoContent

C28_ReadersReleased ==
    (dPc = "returned" /\ dFetcher \in Decoding) =>
        /\ dOut.err # Nil => ~bodyOpen /\ ~gzipOpen
        /\ (dOut.err = Nil /\ dFetcher # "fetchContentsAsReader") =>
              ~bodyOpen /\ ~gzipOpen

\* C29 (as claimed): whatever fetcher hands the bytes of a successful
\* response to its caller, the bytes are the body decompressed and
\* charset-normalized as the response's headers select.
C29_DecoderAppliedUniformly ==
    (dPc = "returned" /\ dOut.err = Nil /\ ~dOut.reader) =>
        dOut.bytes = DecodedAsHeadersSelect

\* two writes of different calls to one location, each made while the other
\* call was in progress
Conflict(w1, w2) ==
    /\ w1.loc = w2.loc
    /\ w1.call # w2.call
    /\ w1.overlap
    /\ w2.overlap

\* C30 (as claimed): concurrent calls on one instance write no memory
\* location in common except the limiter's bucket; the URL that
\* CheckRedirect records is kept per call.
C30_NoSharedWrites ==
    \A w1 \in rcWrites : \A w2 \in rcWrites :
        Conflict(w1, w2) => w1.loc = "limiter"

\* C31 (as claimed): whenever GetResponse stops on a 404 response under
\* noRetry404, in the attempt loop or in the recovery loop, the error it
\* returns satisfies Is404NoRetryError.
C31_NotFoundNoRetryEverywhere ==
    (pc = "returned" /\ r.noRetry404 /\ ret.resp = StatusNotFound) =>
        Is404NoRetryError(ret.err)

\* C32: all calls of NewSECRequest, concurrent or one after another, return
\* the same non-nil instance, which is built exactly once and is returned
\* only after it has been built and assigned: its callers share one engine
\* and so one rate limiter.  (The same holds for the installer constructor.)
C32_SingletonOnce ==
    \A c \in Constructors :
        /\ built[c] <= 1
        /\ snReturned[c] \subseteq {1}
        /\ \A k \in Callers :
             (snPc[k] = "returned" /\ snCtor[k] = c) =>
                 /\ snRet[k] = 1
                 /\ snRet[k] = instance[c]
                 /\ built[c] = 1

C32_Witness ==
    /\ \A k \in Callers :
         snPc[k] = "returned" /\ snCtor[k] = "NewSECRequest" /\ snRet[k] = 1
    /\ built["NewSECRequest"] = 1

\* C33 (as claimed): every row of the virtual filesystem has content of at
\* most MaxFileSize bytes and a path of at most MaxPathLength characters,
\* and an operation whose content or path is over a limit has returned an
\* error and left the table as it was.
C33_LimitsEnforced ==
    /\ \A row \in fsStore :
         row.size <= MaxFileSize /\ row.path.len <= MaxPathLength
    /\ (/\ fsLast.op \in {"CreateFile", "UpdateFile", "CreateDirectory",
                          "write_file"}
        /\ (fsLast.size > MaxFileSize \/ fsLast.pathLen > MaxPathLength)) =>
          fsLast.err /\ ~fsLast.changed

\* C34 (as claimed): on a rate-limited engine every request that reaches the
\* network, retries and recovery-loop requests included, was admitted by the
\* limiter: the requests sent never outnumber the successful limiter waits.
C34_EveryRequestAdmitted ==
    r.isRateLimited => sent <= admitted

LastRange == ranges[Len(ranges)]

\* C35: a request of the stream fetcher carries a Range header exactly when
\* the offset held when it is issued is greater than 0, the header then
\* names that offset, and the first request of a run carries none.
C35_RangeHeaderIffOffset ==
    /\ stPc = "awaitResponse" =>
          /\ LastRange # NoRange <=> lastBytePosition > 0
          /\ LastRange # NoRange => LastRange = lastBytePosition
    /\ Len(ranges) >= 1 => ranges[1] = NoRange

C35_Witness ==
    /\ stPc = "awaitResponse"
    /\ Len(ranges) = 3
    /\ ranges[1] = NoRange
    /\ ranges[2] > 0
    /\ ranges[3] = NoRange
    /\ lastBytePosition = 0

RECURSIVE LinesOf(_)
\* the lines of a sequence of bytes, as the scanner splits it
LinesOf(bytes) ==
    IF bytes = << >> THEN << >>
    ELSE << ScanToken(bytes) >> \o LinesOf(ScanRest(bytes))

IsPrefixOf(s, t) == Len(s) <= Len(t) /\ SubSeq(t, 1, Len(s)) = s

\* Every response so far is a 206 with the stream's bytes from the offset
\* the request named (from 0 without a Range header) up to a line boundary,
\* at least one line, and its Content-Length was the number of bytes it
\* carried (seen in the offset the fetcher took from it, which is the Range
\* of the next request, and for the last response in contentLength).
WellBehavedRangeServer ==
    /\ \A k \in 1..Len(stResponses) :
         LET rs == stResponses[k] IN
         /\ rs.status = StatusPartialContent
         /\ rs.from = IF ranges[k] = NoRange THEN 0 ELSE ranges[k]
         /\ rs.to > rs.from
         /\ stream[rs.to] = NL
         /\ k < Len(ranges) => ranges[k + 1] = rs.to - rs.from
         /\ k = Len(stResponses) => contentLength = rs.to - rs.from

\* C36 (as claimed): against such a server the lines forwarded over the
\* polls of a run are the stream's lines in order, none twice, none skipped.
C36_LinesExactlyOnce ==
    WellBehavedRangeServer => IsPrefixOf(delivered, LinesOf(stream))

\* C37 (as claimed): the stream fetcher holds at most one open response
\* body at any time, and none when it issues a request.
C37_OneOpenBody ==
    /\ stOpen <= 1
    /\ stPc = "request" => stOpen = 0

\* the backoff waits of a call that makes all its attempts under a recovery
\* policy
WaitsWithPolicy == IF r.maxRetries = 0 THEN 0 ELSE r.maxRetries - 1

\* C38: without a recovery policy a backoff wait follows every failed
\* attempt of GetResponse, the last one included: the max-retries error is
\* returned after maxRetries attempts and maxRetries waits, and a caller
\* context that ends during the wait after the final attempt makes the call
\* return the context's error, not the max-retries error.  With a recovery
\* policy no backoff wait follows the final attempt.
C38_WaitAfterLastAttempt ==
    /\ (~r.resolveNetworkUnavailable /\ pc = "returned"
        /\ IsMaxRetriesError(ret.err)) =>
          attempts = r.maxRetries /\ waits = r.maxRetries
    /\ (~r.resolveNetworkUnavailable /\ pc = "classify" /\ cancel
        /\ i = r.maxRetries - 1 /\ ~(err = Nil /\ Is2xx(resp))
        /\ ~(err = Nil /\ IsNoRetry404(resp)) /\ ~IsCanceledError(err)) =>
          ENABLED (attemptClassify /\ pc' = "backoff")
    /\ (~r.resolveNetworkUnavailable /\ canceledAt = "backoff"
        /\ attempts = r.maxRetries /\ pc = "returned") =>
          /\ ret.err = << ctx >>
          /\ ~IsMaxRetriesError(ret.err)
    /\ r.resolveNetworkUnavailable =>
          /\ pc = "backoff" => i < r.maxRetries - 1
          /\ waits <= WaitsWithPolicy
          /\ (pc = "returned" /\ IsMaxRetriesError(ret.err)) =>
                waits = WaitsWithPolicy

\* the caller cancels during the wait that follows the third and last attempt
C38_Witness ==
    /\ ~r.resolveNetworkUnavailable
    /\ r.maxRetries = 3
    /\ attempts = 3
    /\ waits = 3
    /\ canceledAt = "backoff"
    /\ pc = "returned"
    /\ ret.err = << Canceled >>

\* the last request of the call ended on the per-attempt timeout and the
\* caller's context is live
AttemptTimedOut == Is(err, DeadlineExceeded) /\ ctx = "live"

\* C39 (as claimed): when an attempt of GetResponse ends on the per-attempt
\* timeout under a live caller context, the call returns context.Canceled
\* and makes no further attempt, wherever the attempt was made.
C39_TimeoutReturnsCanceled ==
    /\ (pc = "returned" /\ AttemptTimedOut) => ret.err = << Canceled >>
    /\ pc \in {"loop", "backoff", "recovery", "recoverySleeping",
               "recoveryRequest"} => ~Is(err, DeadlineExceeded)

\* C39 (amended): such an attempt is never followed by a wait or another
\* attempt; the call returns context.Canceled when the attempt was made by
\* the attempt loop, and the attempt's own deadline-exceeded error when it
\* was made by the recovery loop.
C39_TimeoutEndsCall ==
    /\ (pc = "returned" /\ AttemptTimedOut) =>
          /\ ret.resp = 0
          /\ ~ret.cancel
          /\ ret.err = IF recAttempts = 0 THEN << Canceled >> ELSE err
    /\ pc \in {"loop", "backoff", "recovery", "recoverySleeping",
               "recoveryRequest"} => ~Is(err, DeadlineExceeded)

\* the second of three attempts times out
C39_Witness ==
    /\ pc = "returned"
    /\ AttemptTimedOut
    /\ r.maxRetries = 3
    /\ attempts = 2
    /\ waits = 1
    /\ recAttempts = 0
    /\ ret.err = << Canceled >>

\* C40 (as claimed): no nil cancel function is invoked.  A call of GetCSV
\* on a URL from which no request can be built ends with GetResponse
\* returning that error, a GetResponse that fails makes GetCSV return no
\* content and an error, and neither crashes.
C40_NilCancelNeverInvoked ==
    /\ pc # "panic"
    /\ (~urlValid /\ attempts > 0 /\ pc \in {"returned", "done"}) =>
          ret = [resp |-> 0, cancel |-> FALSE, err |-> << RequestError >>]
    /\ (pc = "done" /\ ret.err # Nil) => ~out.bytes /\ out.err # Nil

====
